---- MODULE Spec2Model ----
(***************************************************************************)
(* Model of the chart engine of punnet_aacharya (astro_calculator.py).     *)
(*                                                                         *)
(* Angles are exact fixed-point numbers: one unit is half a microdegree,   *)
(* so 1 degree = 2 000 000 units.  Every constant of the source is a whole *)
(* number of units (13.333333 = 26 666 666, 3.333333 = 6 666 666,          *)
(* 24.18 = 48 360 000).  Away from the cell boundaries binary64 gives the  *)
(* results of exact arithmetic on the units; on a boundary the division    *)
(* and the remainder depend on the double at hand, which the rounding      *)
(* tables below record.  Years of a dasha are fractions whose denominator  *)
(* is the nakshatra span, the double rounded to the nearest one.  The      *)
(* sample angles lie at least one unit away from every cell boundary.      *)
(* get_sign is applied as well to the last double below each sign          *)
(* boundary, which no whole number of units holds.                         *)
(***************************************************************************)
EXTENDS Integers, Sequences, FiniteSets, TLC

\* ------------------------------------------------------------------ units

\* n degrees in model units.
Deg(n) == n * 2000000

\* 360: the full circle (astro_calculator.py, sidereal_pos += 360, % 360).
Circle == 720000000

\* 180: the offset of Ketu from Rahu.
HalfCircle == 360000000

\* 30: the span of a zodiac sign, longitude / 30.
SignSpan == 60000000

\* 13.333333: the nakshatra span the source divides by.
NakshatraSpan == 26666666

\* 3.333333: the pada span the source divides by.
PadaSpan == 6666666

\* config.LAHIRI_AYANAMSA_2025 = 24.18.
LAHIRI_AYANAMSA_2025 == 48360000

\* 'house': None, the house of a planet before (or without) assignment.
NoHouse == 0

\* ----------------------------------------------------------------- tables

signs ==
  << "Aries", "Taurus", "Gemini", "Cancer", "Leo", "Virgo",
     "Libra", "Scorpio", "Sagittarius", "Capricorn", "Aquarius", "Pisces" >>

NAKSHATRAS ==
  << "Ashwini", "Bharani", "Krittika", "Rohini", "Mrigashira", "Ardra",
     "Punarvasu", "Pushya", "Ashlesha", "Magha", "Purva Phalguni", "Uttara Phalguni",
     "Hasta", "Chitra", "Swati", "Vishakha", "Anuradha", "Jyeshta",
     "Mula", "Purva Ashadha", "Uttara Ashadha", "Shravana", "Dhanishta",
     "Shatabhisha", "Purva Bhadrapada", "Uttara Bhadrapada", "Revati" >>

PLANETS ==
  << "Sun", "Moon", "Mars", "Mercury", "Jupiter", "Venus", "Saturn", "Rahu", "Ketu" >>

\* The keys of planet_codes in insertion order: the bodies asked of the ephemeris.
planet_codes ==
  << "Sun", "Moon", "Mars", "Mercury", "Jupiter", "Venus", "Saturn", "Rahu" >>

dasha_lords ==
  << "Ketu", "Venus", "Sun", "Moon", "Mars", "Rahu", "Jupiter", "Saturn", "Mercury" >>

dasha_years == << 7, 20, 6, 10, 7, 18, 16, 19, 17 >>

\* --------------------------------------------------------- pure functions

\* A Python exception is a record of its type, its message and the type of the
\* exception it was raised from inside the handler of (__context__); NoError is
\* "no exception".
NoError == [type |-> "", message |-> "", context |-> ""]

PyError(t, m) == [type |-> t, message |-> m, context |-> ""]

\* int(longitude / 30)
sign_index(longitude) == longitude \div SignSpan

\* signs[...] raises IndexError when the index is past the table.
get_sign_raises(longitude) == sign_index(longitude) >= Len(signs)

\* AstroCalculator.get_sign (defined where it does not raise).
get_sign(longitude) == signs[sign_index(longitude) + 1]

\* On a boundary k * 13.333333 + q * 3.333333 the binary64 results of
\* int(x / 13.333333), x % 13.333333 and int((x % 13.333333) / 3.333333) depend
\* on the double x, in one of four ways:
\*   "exact"  as in exact arithmetic on the units;
\*   "low"    (x % 13.333333) / 3.333333 comes out just under q: the pada is q;
\*   "wraps"  q = 0, int(x / 13.333333) is k but x % 13.333333 comes out just
\*            under 13.333333;
\*   "below"  q = 0 and x lies under the boundary: the index is k - 1 and
\*            x % 13.333333 is just under 13.333333.
\* A longitude that is no boundary rounds "exact".

\* The boundaries (units) whose nearest double rounds otherwise than "exact" in
\* get_nakshatra and calculate_dasha_periods.
DirectRounding ==
  [ low |->
      { 33333332, 39999998, 46666664, 53333330, 59999998, 66666664, 79999996,
      86666664, 99999996, 119999996, 133333328, 153333328, 159999994,
      173333328, 179999994, 193333328, 199999994, 219999994, 239999992,
      266666658, 286666658, 306666658, 326666658, 346666656, 366666656,
      386666656, 399999988, 406666656, 419999988, 439999988, 459999988,
      479999986, 499999986, 513333320, 533333318, 553333318, 573333318,
      593333318, 613333316, 633333316, 653333316, 673333316, 693333314,
      713333314, 733333314 },
    wraps |->
      { 133333330, 239999994, 266666660, 346666658, 479999988, 533333320,
      613333318, 693333316 },
    below |->
      { } ]

\* The tropical longitudes (units) for which the double pos[0] - ayanamsa
\* (+ 360 when negative) lies on a boundary and rounds otherwise than "exact".
DifferenceRounding ==
  [ low |->
      { 1693316, 21693314, 41693314, 55026666, 61693332, 75026664, 81693332,
      95026664, 115026664, 128359996, 148359996, 155026662, 168359996,
      175026662, 181693328, 195026662, 201693328, 215026662, 221693328,
      235026660, 241693328, 255026660, 268359994, 275026660, 288359992,
      295026660, 308359992, 315026658, 328359992, 335026658, 348359992,
      355026658, 368359990, 375026658, 388359990, 395026656, 408359990,
      415026656, 428359990, 435026656, 448359988, 455026656, 468359988,
      488359988, 508359988, 521693320, 541693320, 561693320, 581693318,
      601693318, 621693318, 641693318, 661693316, 681693316, 688359982,
      701693316, 708359982 },
    wraps |->
      { 21693316, 181693330, 315026660, 395026658, 448359990, 581693320,
      661693318 },
    below |->
      { 128359998, 235026662, 288359994, 368359992 } ]

\* The tropical longitudes of Rahu (units) for which the double
\* (rahu_pos + 180) % 360 lies on a boundary and rounds otherwise than "exact".
KetuRounding ==
  [ low |->
      { 1693324, 21693324, 35026656, 41693324, 55026656, 75026656, 95026656,
      128359988, 148359988, 168359986, 188359986, 201693320, 221693318,
      241693318, 261693318, 281693318, 301693316, 321693316, 341693316,
      361693316, 381693314, 401693314, 415026666, 421693332, 435026664,
      441693332, 455026664, 461693330, 475026664, 481693330, 495026664,
      501693330, 515026662, 521693330, 535026662, 541693328, 555026662,
      561693328, 575026662, 581693328, 595026660, 601693328, 615026660,
      621693326, 635026660, 641693326, 655026660, 661693326, 675026658,
      681693326, 695026658, 701693324 },
    wraps |->
      { 168359988, 221693320, 301693318, 381693316, 675026660 },
    below |->
      { 435026666, 461693332, 515026664, 541693330, 595026662, 621693328,
      701693326 } ]

rounding_in(table, key) ==
  IF key \in table.low THEN "low"
  ELSE IF key \in table.wraps THEN "wraps"
  ELSE IF key \in table.below THEN "below"
  ELSE "exact"

\* The rounding of the double nearest to a longitude given in decimals.
rounding(longitude) == rounding_in(DirectRounding, longitude)

\* The rounding of sidereal_pos = pos[0] - ayanamsa (+ 360 when negative).
difference_rounding(tropical, jd) == rounding_in(DifferenceRounding, tropical)

\* The rounding of ketu_pos = (rahu_pos + 180) % 360, rahu_pos being the
\* sidereal_pos of the tropical longitude the ephemeris answered for Rahu.
ketu_rounding(rahu_tropical, jd) == rounding_in(KetuRounding, rahu_tropical)

\* int(longitude / 13.333333) for a double of the given rounding.
nakshatra_index_at(longitude, r) ==
  IF r = "below" THEN (longitude - 1) \div NakshatraSpan
  ELSE longitude \div NakshatraSpan

\* longitude % 13.333333 for a double of the given rounding, to the nearest unit.
nakshatra_portion(longitude, r) ==
  IF r \in {"wraps", "below"} THEN NakshatraSpan ELSE longitude % NakshatraSpan

\* int((longitude % 13.333333) / 3.333333) + 1 for a double of the given rounding.
pada_at(longitude, r) ==
  IF r = "exact"
    THEN ((longitude % NakshatraSpan) \div PadaSpan) + 1
    ELSE ((nakshatra_portion(longitude, r) - 1) \div PadaSpan) + 1

\* AstroCalculator.get_nakshatra for a double of the given rounding (defined
\* where it does not raise).
get_nakshatra_at(longitude, r) ==
  [ name |-> NAKSHATRAS[nakshatra_index_at(longitude, r) + 1],
    pada |-> pada_at(longitude, r) ]

\* NAKSHATRAS[nakshatra_index] raises IndexError when the index is past the table.
get_nakshatra_raises_at(longitude, r) ==
  nakshatra_index_at(longitude, r) >= Len(NAKSHATRAS)

\* int(longitude / 13.333333); the double nearest to a boundary never rounds
\* "below".
nakshatra_index(longitude) == longitude \div NakshatraSpan

\* int((longitude % 13.333333) / 3.333333) + 1
pada_of(longitude) == pada_at(longitude, rounding(longitude))

\* NAKSHATRAS[nakshatra_index] raises IndexError when the index is past the table.
get_nakshatra_raises(longitude) == nakshatra_index(longitude) >= Len(NAKSHATRAS)

\* AstroCalculator.get_nakshatra (defined where it does not raise).
get_nakshatra(longitude) ==
  [name |-> NAKSHATRAS[nakshatra_index(longitude) + 1], pada |-> pada_of(longitude)]

\* A binary64 longitude: the double of a grid longitude, or, with below, the
\* last double under it (29.999999999999996 under 30), which no grid longitude
\* holds.
on_grid(longitude) == [longitude |-> longitude, below |-> FALSE]

last_below(longitude) == [longitude |-> longitude, below |-> TRUE]

\* A grid longitude of the 30-degree cell the double x lies in: int(x / 30) is
\* the same on both.
cell_longitude(x) == IF x.below THEN x.longitude - 1 ELSE x.longitude

\* The << s, k >> for which L + 360 * k, L the last double below the sign
\* boundary 30 * s, has no double of its own and rounds to 30 * s + 360 * k:
\* the doubles lie 2^-48 apart below 30 and 2^-44 apart around 390.
TurnRounding ==
  {<< s, k >> : s \in 1..4, k \in {-2, -1, 1}}
    \cup {<< s, k >> : s \in 5..8, k \in {-2, 1}}
    \cup {<< s, 1 >> : s \in 9..12}

\* (x + 360 * k) % 360 on a double x of [0,360): x itself for k = 0; for a
\* double of the grid a double that rounds to the same grid longitude; for the
\* last double below a sign boundary that boundary (0.0 for 360) where the sum
\* rounds, and x where it does not.
normalize(x, k) ==
  IF x.below /\ << x.longitude \div SignSpan, k >> \in TurnRounding
    THEN on_grid(x.longitude % Circle)
    ELSE x

\* AstroCalculator.get_ayanamsa: the constant, whatever the Julian Day.
get_ayanamsa(jd) == LAHIRI_AYANAMSA_2025

\* sidereal_pos = pos[0] - ayanamsa; if sidereal_pos < 0: sidereal_pos += 360
sidereal(tropical, jd) ==
  LET sidereal_pos == tropical - get_ayanamsa(jd)
  IN  IF sidereal_pos < 0 THEN sidereal_pos + Circle ELSE sidereal_pos

ketu_longitude_Quarter(rahu_pos) == (rahu_pos + HalfCircle \div 2) % Circle

\* ketu_pos = (rahu_pos + 180) % 360
ketu_longitude(rahu_pos) == (rahu_pos + HalfCircle) % Circle

\* The interval test of house i+1 (i counted from 0, as enumerate does).
InHouse_NoWrap(cusps, i, longitude) ==
  LET cusp      == cusps[i + 1]
      next_cusp == cusps[((i + 1) % 12) + 1]
  IN  cusp <= longitude /\ longitude < next_cusp

InHouse(cusps, i, longitude) ==
  LET cusp      == cusps[i + 1]
      next_cusp == cusps[((i + 1) % 12) + 1]
  IN  IF next_cusp < cusp
        THEN longitude >= cusp \/ longitude < next_cusp
        ELSE cusp <= longitude /\ longitude < next_cusp

\* The inner loop of step 6: the first i whose test holds sets house = i + 1
\* and breaks; when none holds the house stays None.
assign_house(cusps, longitude) ==
  LET hits == {i \in 0..(Len(cusps) - 1) : InHouse(cusps, i, longitude)}
  IN  IF hits = {} THEN NoHouse
      ELSE (CHOOSE i \in hits : \A j \in hits : i <= j) + 1

\* start_index = nakshatra_index % 9 (counted from 0)
start_index(moon_longitude) == nakshatra_index(moon_longitude) % 9

elapsed_years_Complement(moon_longitude) ==
  dasha_years[start_index(moon_longitude) + 1]
    * (NakshatraSpan - (moon_longitude % NakshatraSpan))

remaining_years_WrongLord(moon_longitude) ==
  LET s == start_index(moon_longitude)
  IN  dasha_years[((s + 1) % 9) + 1] * NakshatraSpan
        - dasha_years[s + 1] * (moon_longitude % NakshatraSpan)

\* elapsed_years = dasha_years[start_index] * nakshatra_portion, as a number of
\* (1 / NakshatraSpan) years.
elapsed_years(moon_longitude) ==
  dasha_years[start_index(moon_longitude) + 1]
    * nakshatra_portion(moon_longitude, rounding(moon_longitude))

\* remaining_years = dasha_years[start_index] - elapsed_years, same unit.
remaining_years(moon_longitude) ==
  dasha_years[start_index(moon_longitude) + 1] * NakshatraSpan
    - elapsed_years(moon_longitude)

dasha_sequence_NoRotation(moon_longitude) ==
  [i \in 1..9 |-> << dasha_lords[i], dasha_years[i] >>]

\* [(dasha_lords[(start_index + i) % 9], dasha_years[(start_index + i) % 9])
\*  for i in range(9)]
dasha_sequence(moon_longitude) ==
  LET s == start_index(moon_longitude)
  IN  [i \in 1..9 |-> << dasha_lords[((s + i - 1) % 9) + 1],
                        dasha_years[((s + i - 1) % 9) + 1] >>]

\* AstroCalculator.calculate_dasha_periods
calculate_dasha_periods(moon_longitude) ==
  [ current_dasha   |-> dasha_lords[start_index(moon_longitude) + 1],
    elapsed_years   |-> elapsed_years(moon_longitude),
    remaining_years |-> remaining_years(moon_longitude),
    sequence        |-> dasha_sequence(moon_longitude) ]

\* AstroCalculator.calculate_dasha_periods for a double of the given rounding.
dasha_periods_at(moon_longitude, r) ==
  LET s       == nakshatra_index_at(moon_longitude, r) % 9
      elapsed == dasha_years[s + 1] * nakshatra_portion(moon_longitude, r)
  IN  [ current_dasha   |-> dasha_lords[s + 1],
        elapsed_years   |-> elapsed,
        remaining_years |-> dasha_years[s + 1] * NakshatraSpan - elapsed,
        sequence        |-> [i \in 1..9 |-> << dasha_lords[((s + i - 1) % 9) + 1],
                                               dasha_years[((s + i - 1) % 9) + 1] >>] ]

\* AstroCalculator.calculate_divisional_charts computes (longitude * n) % 360;
\* the product is reduced after every addition, which gives the same residue.
RECURSIVE times_mod_circle(_, _)
times_mod_circle(longitude, n) ==
  IF n = 0 THEN 0
  ELSE (times_mod_circle(longitude, n - 1) + longitude) % Circle

divisional_entry_SignOfMain(longitude, n) ==
  LET d_longitude == times_mod_circle(longitude, n)
  IN  [longitude |-> d_longitude, sign |-> get_sign(longitude)]

\* One planet's entry of a divisional chart.
divisional_entry(longitude, n) ==
  LET d_longitude == times_mod_circle(longitude, n)
  IN  [longitude |-> d_longitude, sign |-> get_sign(d_longitude)]

\* AstroCalculator.calculate_divisional_charts
calculate_divisional_charts(pos) ==
  [ D9  |-> [p \in DOMAIN pos |-> divisional_entry(pos[p].longitude, 9)],
    D10 |-> [p \in DOMAIN pos |-> divisional_entry(pos[p].longitude, 10)] ]

positions_after_divisional_Overwritten(pos) ==
  [p \in DOMAIN pos |-> [pos[p] EXCEPT !.longitude = times_mod_circle(@, 9)]]

\* The positions map after calculate_divisional_charts(positions): the loop
\* reads data['longitude'] and writes only to the new dictionaries.
positions_after_divisional(pos) == pos

\* ----------------------------------------------------------------- bounds

\* Sample angles are taken this many odd units on either side of every cell
\* boundary (nakshatra, pada, sign).
EdgeWidth == 1

\* Number of evenly spaced sample angles over the circle (72: every 5 degrees).
CoarsePoints == 72

\* Number of well-formed cusp configurations the house provider may answer.
NumCuspSamples == 12

\* Number of successive calls of calculate_divisional_charts on one positions map.
DivisionalCalls == 2

\* Number of charts one AstroCalculator hands back in a session.
MaxCharts == 2

\* Number of birth instants (Julian Days) a chart may be asked for.
NumInstants == 56

\* How far around the limit the sampled text sizes go.
SizeMargin == 5

\* How many messages are logged at most.
MaxLogged == 4

\* ----------------------------------------------------------------- inputs

CellEdges ==
  {k * NakshatraSpan + q * PadaSpan : k \in 0..27, q \in 0..4}
    \cup {s * SignSpan : s \in 0..12}
    \cup {HalfCircle}

EdgeOffsets == {2 * j - 1 : j \in 1..EdgeWidth}

\* The sample longitudes of [0,360): around every boundary, and evenly spread.
Longitudes ==
  {x \in {e + d : e \in CellEdges, d \in EdgeOffsets}
         \cup {e - d : e \in CellEdges, d \in EdgeOffsets}
         \cup {j * (Circle \div CoarsePoints) : j \in 0..(CoarsePoints - 1)}
     : 0 <= x /\ x < Circle}

\* The whole turns added to a longitude before it is normalized.
Turns == {-2, -1, 0, 1}

\* The doubles of [0,360) taken with a sample longitude: its own, and the last
\* double of its sign cell (the last below the next sign boundary).
Doubles(longitude) ==
  {on_grid(longitude), last_below((sign_index(longitude) + 1) * SignSpan)}

\* Twelve equal houses from the ascendant.
EqualHouses(asc) == [i \in 1..12 |-> (asc + (i - 1) * SignSpan) % Circle]

\* Twelve unequal houses (25, 30, 35, 35, 30, 25 degrees, twice) from the ascendant.
UnequalHouses(asc) ==
  LET start == << 0, 25, 55, 90, 125, 155, 180, 205, 235, 270, 305, 335 >>
  IN  [i \in 1..12 |-> (asc + Deg(start[i])) % Circle]

\* The k-th well-formed answer of swe.houses: k = 1 is [350, 20, 50, ...].
CuspSample(k) ==
  LET asc == (Deg(350) + (k - 1) * Deg(29)) % Circle
  IN  IF k % 2 = 1 THEN EqualHouses(asc) ELSE UnequalHouses(asc)

\* Malformed answers: all twelve cusps equal, and cusps in descending order
\* (eleven wraparounds).
EqualCusps == [i \in 1..12 |-> Deg(100)]

DescendingCusps == [i \in 1..12 |-> Deg(345) - (i - 1) * SignSpan]

MalformedCusps == {EqualCusps, DescendingCusps}

WellFormedCusps == {CuspSample(k) : k \in 1..NumCuspSamples}

\* swe.houses(jd, lat, lon, b'P') for the given cusps: the pair (houses, ascmc),
\* ascmc being the Ascendant (cusp 1), the Midheaven (cusp 10), the ARMC and
\* the Vertex.
swe_houses(cusps) ==
  [ houses |-> cusps,
    ascmc  |-> << cusps[1], cusps[10], (cusps[10] + Deg(2)) % Circle,
                  (cusps[7] + Deg(11)) % Circle >> ]

calculate_houses_WrongAngle(answer) ==
  [ cusps |-> SubSeq(answer.houses, 1, 12),
    asc   |-> answer.ascmc[1],
    mc    |-> answer.ascmc[3] ]

\* AstroCalculator.calculate_houses on the provider's answer:
\* {'cusps': houses[:12], 'asc': ascmc[0], 'mc': ascmc[1]}
calculate_houses(answer) ==
  [ cusps |-> SubSeq(answer.houses, 1, 12),
    asc   |-> answer.ascmc[1],
    mc    |-> answer.ascmc[2] ]

\* The houses record for one answer of swe.houses.
HouseAnswer(cusps) == calculate_houses(swe_houses(cusps))

\* Sidereal longitudes that exercise the edges of the position calculator: an
\* ordinary one, the last 9 microdegrees of the circle, the last microdegree of
\* a nakshatra, a tropical longitude below the ayanamsa, a Rahu whose Ketu falls
\* in the last microdegrees, 0, and 100 degrees.
EdgeSidereal ==
  << Deg(100) + 1, Circle - 5, NakshatraSpan - 1,
     Circle - LAHIRI_AYANAMSA_2025 + 1, HalfCircle - 5, 0, Deg(100) >>

\* swe.calc_ut(jd, body)[0][0]: the tropical longitude the ephemeris answers, a
\* function of the instant and the body.  Each instant puts one body on one of
\* the edge longitudes and spreads the others over the circle.
swe_calc_ut(j, body) ==
  LET idx   == CHOOSE i \in 1..Len(planet_codes) : planet_codes[i] = body
      focus == ((j - 1) % Len(planet_codes)) + 1
      edge  == EdgeSidereal[(((j - 1) \div Len(planet_codes)) % Len(EdgeSidereal)) + 1]
  IN  IF idx = focus
        THEN (edge + LAHIRI_AYANAMSA_2025) % Circle
        ELSE (Deg(13) + idx * Deg(41) + j * Deg(7) + 1) % Circle

\* What the geocoder may answer to geocode(place_name): a location (latitude,
\* longitude in whole degrees), no match (None), or a failure of the service.
GeocodeAnswers == {"location", "None", "GeocoderServiceError"}

\* The location of a place that is found.
Location(place) == IF place = "Delhi" THEN << 28, 77 >> ELSE << 19, 72 >>

\* What TimezoneFinder.timezone_at may answer: a zone, a zone name pytz does
\* not list, or None over open sea.
TimezoneAnswers == {"Asia/Kolkata", "Asia/Unlisted", "None"}

\* The identifiers pytz.timezone accepts.
PytzZones == {"Asia/Kolkata"}

Places == {"Delhi", "Mumbai"}

Names == {"Asha"}

\* ------------------------------------------------------------------ state

VARIABLES
  name,               \* generate_birth_chart's arguments
  birth,              \*   birth_date and birth_time, as the number of the instant
  birth_place,
  pc,                 \* the step generate_birth_chart is at
  location,           \* what the geocoder answered, "" before step 1
  coords,             \* (lat, lon), <<>> before step 1
  timezone_str,       \* "" before step 2
  jd,                 \* 0 before step 3
  houses,             \* <<>> before step 4, then << the record >>
  positions,          \* planet -> record, filled body by body
  divisional_charts,  \* <<>> before step 7, then << the record >>
  dasha,              \* <<>> before step 8, then << the record >>
  result,             \* <<>>, or << the chart >> once returned
  error,              \* the exception that left generate_birth_chart
  failed_stage,       \* history: the step whose failure raised it
  calls,              \* history: the collaborator calls made, in order
  returned_charts,    \* history: the charts the calculator has handed back
  fn_op,              \* the function applied to the sample inputs
  fn_lon,             \* a sample longitude
  fn_cusps,           \* a sample cusp tuple
  fn_ret              \* what the function returned

chart_vars ==
  << name, birth, birth_place, pc, location, coords, timezone_str, jd, houses,
     positions, divisional_charts, dasha, result, error, failed_stage, calls,
     returned_charts >>

fn_vars == << fn_op, fn_lon, fn_cusps, fn_ret >>

VARIABLES
  reply_method,       \* the reply method applied to a model outcome
  model_outcome,      \* what model.generate_content does for that call
  reply_ret           \* << the string the method returned >>

reply_vars == << reply_method, model_outcome, reply_ret >>

VARIABLES
  chat_files,         \* the user's chat files, oldest first; each its messages
  recent,             \* << what get_recent_messages returned >>
  history_block,      \* << the Previous Conversation lines of the analysis prompt >>
  model_calls,        \* the model calls process_user_message made, in order
  pm_ret              \* << (response_text, context_analysis) >>

log_vars == << chat_files, recent, history_block, model_calls, pm_ret >>

VARIABLES
  conv_state,         \* the ConversationHandler's state for the user
  user_data,          \* context.user_data, a dictionary
  db_row,             \* << the user's row of the users table >>, << >> when none
  sent,               \* the replies Telegram took from the last handler, in order
  bot_log,            \* what the last handler logged, in order
  task,               \* the handler coroutine that is suspended at an await
  last                \* the last handler call: its name, inputs and outcomes

bot_vars == << conv_state, user_data, db_row, sent, bot_log, task, last >>

consult_vars == << reply_vars, log_vars, bot_vars >>

vars == << chart_vars, fn_vars, consult_vars >>

\* No reply method applied.
ReplyIdle ==
  /\ reply_method = "none"
  /\ model_outcome = << >>
  /\ reply_ret = << >>

\* The consultation layer is not running.
\* Nothing was asked of the chat log or of the context manager.
QueryIdle ==
  /\ recent = << >>
  /\ history_block = << >>
  /\ model_calls = << >>
  /\ pm_ret = << >>

\* No chat file and no query.
LogIdle ==
  /\ chat_files = << >>
  /\ QueryIdle

\* No handler is running: the Application waits for the next update.
NoTask == [handler |-> "none", awaits |-> "none", text |-> ""]

\* The consultation layer is not running.
\* No update was handled yet: no conversation, an empty user_data, no row.
BotIdle ==
  /\ conv_state = "END"
  /\ user_data = << >>
  /\ db_row = << >>
  /\ sent = << >>
  /\ bot_log = << >>
  /\ task = NoTask
  /\ last = [ handler |-> "none", chart |-> "not asked", text |-> "", data_before |-> << >>,
              row_before |-> << >>, ended |-> "returned", raised |-> << >> ]

ConsultIdle ==
  /\ ReplyIdle
  /\ LogIdle
  /\ BotIdle

\* No positions yet: positions = {}.
NoPositions == [p \in {} |-> 0]

\* The locals of an invocation that has not started.
FreshLocals ==
  /\ location = ""
  /\ coords = << >>
  /\ timezone_str = ""
  /\ jd = 0
  /\ houses = << >>
  /\ positions = NoPositions
  /\ divisional_charts = << >>
  /\ dasha = << >>
  /\ result = << >>
  /\ error = NoError
  /\ failed_stage = ""
  /\ calls = << >>

\* No function applied.
FnIdle ==
  /\ fn_op = "none"
  /\ fn_lon = 0
  /\ fn_cusps = << >>
  /\ fn_ret = << >>

\* One call of generate_birth_chart(name, birth_date, birth_time, birth_place).
Init ==
  /\ name \in Names
  /\ birth \in 1..NumInstants
  /\ birth_place \in Places
  /\ pc = "coordinates"
  /\ FreshLocals
  /\ returned_charts = << >>
  /\ FnIdle
  /\ ConsultIdle

\* ------------------------------------------------- generate_birth_chart

\* except Exception as e: raise Exception(f"Error calculating birth chart: {str(e)}")
\* The exception that reaches the caller is a plain Exception whose message
\* embeds the text of the original one.
Reraised(e) == [type |-> "Exception", message |-> e.message, context |-> e.type]

Continue_SkipsTimezone(next) ==
  /\ pc' = IF next = "timezone" THEN "julian_day" ELSE next
  /\ UNCHANGED << error, failed_stage, result >>

Fail_Retries(stage, e) ==
  IF Len(calls) < 4
    THEN UNCHANGED << pc, error, failed_stage, result >>
    ELSE /\ pc' = "raised"
         /\ error' = Reraised(e)
         /\ failed_stage' = stage
         /\ result' = << >>

\* A step fails with exception e: nothing is returned.
Fail(stage, e) ==
  /\ pc' = "raised"
  /\ error' = Reraised(e)
  /\ failed_stage' = stage
  /\ result' = << >>

Continue(next) ==
  /\ pc' = next
  /\ UNCHANGED << error, failed_stage, result >>

found_NoneAccepted(answer) == TRUE

\* if location: the geocoder's answer is a location, not None.
found(answer) == answer = "location"

\* Step 1: lat, lon = self.get_coordinates(birth_place)
GetCoordinates ==
  /\ pc = "coordinates"
  /\ calls' = Append(calls, << "geocode", birth_place >>)
  /\ \E answer \in GeocodeAnswers :
       /\ location' = answer
       /\ IF answer = "GeocoderServiceError"
            THEN /\ UNCHANGED coords
                 /\ Fail("coordinates", PyError("GeocoderServiceError", "geocoder failed"))
            ELSE IF found(answer)
                   THEN coords' = Location(birth_place) /\ Continue("timezone")
                   ELSE /\ UNCHANGED coords
                        /\ Fail("coordinates",
                                PyError("ValueError", "Could not find coordinates"))
  /\ UNCHANGED << name, birth, birth_place, returned_charts, timezone_str, jd,
                  houses, positions, divisional_charts, dasha >>
  /\ UNCHANGED << fn_vars, consult_vars >>

\* Step 2: timezone_str = self.tf.timezone_at(lat=lat, lng=lon)
TimezoneAt ==
  /\ pc = "timezone"
  /\ calls' = Append(calls, << "timezone_at", "" >>)
  /\ \/ /\ \E tz \in TimezoneAnswers : timezone_str' = tz
        /\ Continue("julian_day")
     \/ /\ UNCHANGED timezone_str
        /\ Fail("timezone", PyError("ValueError", "timezone_at failed"))
  /\ UNCHANGED << name, birth, birth_place, location, returned_charts, coords, jd,
                  houses, positions, divisional_charts, dasha >>
  /\ UNCHANGED << fn_vars, consult_vars >>

recognized_AnyZone(zone) == TRUE

\* tz = pytz.timezone(timezone_str) returns: pytz knows the identifier.
recognized(zone) == zone \in PytzZones

\* swe.julday of the birth instant: instant n is Julian Day n.
swe_julday(instant) == instant

\* Step 3: jd = self.calculate_julian_day(birth_datetime, timezone_str);
\* pytz.timezone raises UnknownTimeZoneError for an identifier it does not know.
CalculateJulianDay ==
  /\ pc = "julian_day"
  /\ IF recognized(timezone_str)
       THEN /\ jd' = swe_julday(birth)
            /\ calls' = Append(calls, << "julday", "" >>)
            /\ Continue("houses")
       ELSE /\ UNCHANGED << jd, calls >>
            /\ Fail("julian_day", PyError("UnknownTimeZoneError", timezone_str))
  /\ UNCHANGED << name, birth, birth_place, location, returned_charts, coords,
                  timezone_str, houses, positions, divisional_charts, dasha >>
  /\ UNCHANGED << fn_vars, consult_vars >>

\* Step 4: houses = self.calculate_houses(jd, lat, lon); swe.houses answers
\* twelve cusps and the angles, or raises.
CalculateHouses ==
  /\ pc = "houses"
  /\ calls' = Append(calls, << "houses", "" >>)
  /\ \/ \E cusps \in WellFormedCusps \cup MalformedCusps :
          /\ houses' = << HouseAnswer(cusps) >>
          /\ Continue("planets")
     \/ /\ UNCHANGED houses
        /\ Fail("houses", PyError("swisseph.Error", "houses failed"))
  /\ UNCHANGED << name, birth, birth_place, location, returned_charts, coords,
                  timezone_str, jd, positions, divisional_charts, dasha >>
  /\ UNCHANGED << fn_vars, consult_vars >>

\* The record calculate_planetary_positions stores for a longitude, a double
\* of the given rounding.
position_record(longitude, r) ==
  [ longitude |-> longitude,
    sign      |-> get_sign(longitude),
    nakshatra |-> get_nakshatra_at(longitude, r),
    house     |-> NoHouse ]

\* Step 5, one turn of the loop over planet_codes: ask the ephemeris for the
\* body, make the longitude sidereal, store the record.
CalcPlanet ==
  /\ pc = "planets"
  /\ LET planet_name  == planet_codes[Cardinality(DOMAIN positions) + 1]
         tropical     == swe_calc_ut(jd, planet_name)
         sidereal_pos == sidereal(tropical, jd)
         r            == difference_rounding(tropical, jd)
     IN  /\ calls' = Append(calls, << "calc_ut", planet_name >>)
         /\ \/ /\ UNCHANGED positions
               /\ Fail("planets", PyError("swisseph.Error", "calc_ut failed"))
            \/ IF get_sign_raises(sidereal_pos) \/ get_nakshatra_raises_at(sidereal_pos, r)
                 THEN /\ UNCHANGED positions
                      /\ Fail("planets", PyError("IndexError", "list index out of range"))
                 ELSE /\ positions' = (planet_name :> position_record(sidereal_pos, r)) @@ positions
                      /\ Continue(IF Cardinality(DOMAIN positions) + 1 = Len(planet_codes)
                                    THEN "ketu" ELSE "planets")
  /\ UNCHANGED << name, birth, birth_place, location, returned_charts, coords,
                  timezone_str, jd, houses, divisional_charts, dasha >>
  /\ UNCHANGED << fn_vars, consult_vars >>

\* Step 5, after the loop: Ketu from Rahu, without the ephemeris.
CalcKetu ==
  /\ pc = "ketu"
  /\ LET ketu_pos == ketu_longitude(positions["Rahu"].longitude)
         r        == ketu_rounding(swe_calc_ut(jd, "Rahu"), jd)
     IN  IF get_sign_raises(ketu_pos) \/ get_nakshatra_raises_at(ketu_pos, r)
           THEN /\ UNCHANGED positions
                /\ Fail("planets", PyError("IndexError", "list index out of range"))
           ELSE /\ positions' = ("Ketu" :> position_record(ketu_pos, r)) @@ positions
                /\ Continue("assign")
  /\ UNCHANGED << name, birth, birth_place, location, returned_charts, coords,
                  timezone_str, jd, houses, divisional_charts, dasha, calls >>
  /\ UNCHANGED << fn_vars, consult_vars >>

\* Step 6: every planet gets the house of the first interval that holds its
\* longitude.
AssignHouses ==
  /\ pc = "assign"
  /\ positions' =
       [p \in DOMAIN positions |->
          [positions[p] EXCEPT !.house = assign_house(houses[1].cusps, positions[p].longitude)]]
  /\ Continue("divisional")
  /\ UNCHANGED << name, birth, birth_place, location, returned_charts, coords,
                  timezone_str, jd, houses, divisional_charts, dasha, calls >>
  /\ UNCHANGED << fn_vars, consult_vars >>

\* Step 7: divisional_charts = self.calculate_divisional_charts(positions)
CalculateDivisionalCharts ==
  /\ pc = "divisional"
  /\ divisional_charts' = << calculate_divisional_charts(positions) >>
  /\ positions' = positions_after_divisional(positions)
  /\ Continue("dasha")
  /\ UNCHANGED << name, birth, birth_place, location, returned_charts, coords,
                  timezone_str, jd, houses, dasha, calls >>
  /\ UNCHANGED << fn_vars, consult_vars >>

\* Step 8: dasha = self.calculate_dasha_periods(positions['Moon']['longitude'])
CalculateDashaPeriods ==
  /\ pc = "dasha"
  /\ dasha' = << dasha_periods_at(positions["Moon"].longitude,
                                   difference_rounding(swe_calc_ut(jd, "Moon"), jd)) >>
  /\ Continue("assemble")
  /\ UNCHANGED << name, birth, birth_place, location, returned_charts, coords,
                  timezone_str, jd, houses, positions, divisional_charts, calls >>
  /\ UNCHANGED << fn_vars, consult_vars >>

convenience_SunForMoon(pos, hs) ==
  [ ascendant_sign |-> get_sign(hs.asc),
    sun_sign       |-> pos["Sun"].sign,
    moon_sign      |-> pos["Sun"].sign ]

\* 'ascendant_sign': self.get_sign(houses['asc']),
\* 'sun_sign': positions['Sun']['sign'], 'moon_sign': positions['Moon']['sign']
convenience(pos, hs) ==
  [ ascendant_sign |-> get_sign(hs.asc),
    sun_sign       |-> pos["Sun"].sign,
    moon_sign      |-> pos["Moon"].sign ]

hand_back_Shared(held, chart) == [i \in 1..(Len(held) + 1) |-> chart]

\* return result: the caller holds one more chart, a dictionary built by this
\* invocation; the charts handed back earlier are other objects.
hand_back(held, chart) == Append(held, chart)

\* result = {...}; return result
Assemble ==
  /\ pc = "assemble"
  /\ LET chart ==
           [ name              |-> name,
             birth             |-> birth,
             birth_place       |-> birth_place,
             coordinates       |-> [latitude |-> coords[1], longitude |-> coords[2]],
             timezone          |-> timezone_str,
             houses            |-> houses[1],
             planets           |-> positions,
             divisional_charts |-> divisional_charts[1],
             dasha             |-> dasha[1],
             ascendant_sign    |-> convenience(positions, houses[1]).ascendant_sign,
             sun_sign          |-> convenience(positions, houses[1]).sun_sign,
             moon_sign         |-> convenience(positions, houses[1]).moon_sign ]
     IN  /\ result' = << chart >>
         /\ returned_charts' = hand_back(returned_charts, chart)
  /\ pc' = "returned"
  /\ UNCHANGED << name, birth, birth_place, location, coords, timezone_str, jd,
                  houses, positions, divisional_charts, dasha, error, failed_stage,
                  calls >>
  /\ UNCHANGED << fn_vars, consult_vars >>

\* ------------------------------------- the chart as the consultation reads it

\* dict.get(key, default)
dict_get(d, key, default) == IF key \in DOMAIN d THEN d[key] ELSE default

\* key_planets = ['Sun', 'Moon', 'Mars', 'Mercury', 'Jupiter', 'Venus', 'Saturn']
key_planets == {"Sun", "Moon", "Mars", "Mercury", "Jupiter", "Venus", "Saturn"}

\* An empty dictionary, the default of chart.get('planets', {}).
EmptyDict == [k \in {} |-> 0]

\* GeminiAstrologer._format_chart_context: the values the context text shows.
\*   planets = chart.get('planets', {}); dasha = chart.get('dasha', {})
\*   ascendant = chart.get('ascendant', 'Unknown')
\*   Current Dasha: {dasha.get('current_dasha', 'Unknown')}
\*   for planet in key_planets: if planet in planets:
\*       sign = planet_data.get('sign', 'Unknown'); house = planet_data.get('house', 'Unknown')
format_chart_context(chart) ==
  LET planets == dict_get(chart, "planets", EmptyDict)
      dasha_  == dict_get(chart, "dasha", EmptyDict)
  IN  [ ascendant     |-> dict_get(chart, "ascendant", "Unknown"),
        current_dasha |-> dict_get(dasha_, "current_dasha", "Unknown"),
        planets       |-> [p \in key_planets \cap DOMAIN planets |->
                             [ sign  |-> dict_get(planets[p], "sign", "Unknown"),
                               house |-> dict_get(planets[p], "house", "Unknown") ]] ]

\* ConversationContextManager: the chart context of the analysis prompt and of
\* the response prompt, the same lookups.
\*   chart_context = ""
\*   if chart_data:
\*       Ascendant: {chart.get('ascendant', 'Unknown')}
\*       Current Dasha: {dasha.get('current_dasha', 'Unknown')}
\* An empty dictionary is false (and so is None, which is the empty dictionary
\* here): the prompt then carries no chart block, the empty string.
chart_context(chart_data) ==
  IF DOMAIN chart_data = {}
    THEN ""
    ELSE LET chart   == chart_data
             planets == dict_get(chart, "planets", EmptyDict)
             dasha_  == dict_get(chart, "dasha", EmptyDict)
         IN  [ ascendant     |-> dict_get(chart, "ascendant", "Unknown"),
               current_dasha |-> dict_get(dasha_, "current_dasha", "Unknown"),
               planets       |-> [p \in key_planets \cap DOMAIN planets |->
                                    [ sign  |-> dict_get(planets[p], "sign", "Unknown"),
                                      house |-> dict_get(planets[p], "house", "Unknown") ]] ]

Next ==
  \/ GetCoordinates
  \/ TimezoneAt
  \/ CalculateJulianDay
  \/ CalculateHouses
  \/ CalcPlanet
  \/ CalcKetu
  \/ AssignHouses
  \/ CalculateDivisionalCharts
  \/ CalculateDashaPeriods
  \/ Assemble

Spec == Init /\ [][Next]_vars

\* ------------------------------------- several charts from one calculator

\* The bot builds one AstroCalculator and asks it for chart after chart; the
\* calculator's fields (tf, geolocator) are set in __init__ and never written
\* again.  The first request of a session: the first or the last instant.
SessionInit ==
  /\ name \in Names
  /\ birth \in {1, NumInstants}
  /\ birth_place = "Delhi"
  /\ pc = "coordinates"
  /\ FreshLocals
  /\ returned_charts = << >>
  /\ FnIdle
  /\ ConsultIdle

\* The next call of generate_birth_chart on the same calculator, after the
\* previous one returned or raised: its locals are new.
InvokeAgain ==
  /\ pc \in {"returned", "raised"}
  /\ Len(returned_charts) < MaxCharts
  /\ name' \in Names
  /\ birth' \in {1, NumInstants}
  /\ birth_place' = "Delhi"
  /\ pc' = "coordinates"
  /\ location' = ""
  /\ coords' = << >>
  /\ timezone_str' = ""
  /\ jd' = 0
  /\ houses' = << >>
  /\ positions' = NoPositions
  /\ divisional_charts' = << >>
  /\ dasha' = << >>
  /\ result' = << >>
  /\ error' = NoError
  /\ failed_stage' = ""
  /\ calls' = << >>
  /\ UNCHANGED returned_charts
  /\ UNCHANGED << fn_vars, consult_vars >>

SessionNext == Next \/ InvokeAgain

SessionSpec == SessionInit /\ [][SessionNext]_vars

\* --------------------------------------------- the functions on their own

\* What a call returned: the exception it raised (NoError when it returned) and
\* the value.
Returned(v) == [error |-> NoError, value |-> v]

Raised(e, v) == [error |-> e, value |-> v]

\* A sample longitude and a sample cusp tuple; no chart is being computed.
FnInit ==
  /\ name = ""
  /\ birth = 0
  /\ birth_place = ""
  /\ pc = "idle"
  /\ FreshLocals
  /\ returned_charts = << >>
  /\ fn_op = "none"
  /\ fn_lon \in Longitudes
  /\ fn_cusps \in WellFormedCusps \cup MalformedCusps
  /\ fn_ret = << >>
  /\ ConsultIdle

\* get_sign(fn_lon)
ApplyGetSign ==
  /\ fn_op = "none"
  /\ fn_op' = "get_sign"
  /\ fn_ret' = IF get_sign_raises(fn_lon)
                 THEN Raised(PyError("IndexError", "list index out of range"), "")
                 ELSE Returned(get_sign(fn_lon))
  /\ UNCHANGED << fn_lon, fn_cusps >>
  /\ UNCHANGED << chart_vars, consult_vars >>

\* get_sign(L) and get_sign((L + 360 * k) % 360), L a double taken with fn_lon.
ApplyGetSignOfTurned ==
  /\ fn_op = "none"
  /\ fn_op' = "get_sign_of_turned"
  /\ \E k \in Turns, L \in Doubles(fn_lon) :
       LET turned == normalize(L, k)
       IN  fn_ret' =
             IF get_sign_raises(cell_longitude(L)) \/ get_sign_raises(cell_longitude(turned))
               THEN Raised(PyError("IndexError", "list index out of range"),
                           [longitude |-> L, turns |-> k, sign |-> "", turned_sign |-> ""])
               ELSE Returned([longitude |-> L, turns |-> k,
                              sign |-> get_sign(cell_longitude(L)),
                              turned_sign |-> get_sign(cell_longitude(turned))])
  /\ UNCHANGED << fn_lon, fn_cusps >>
  /\ UNCHANGED << chart_vars, consult_vars >>

\* get_nakshatra(fn_lon)
ApplyGetNakshatra ==
  /\ fn_op = "none"
  /\ fn_op' = "get_nakshatra"
  /\ fn_ret' = IF get_nakshatra_raises(fn_lon)
                 THEN Raised(PyError("IndexError", "list index out of range"),
                             [name |-> "", pada |-> 0])
                 ELSE Returned(get_nakshatra(fn_lon))
  /\ UNCHANGED << fn_lon, fn_cusps >>
  /\ UNCHANGED << chart_vars, consult_vars >>

\* The house-assignment loop for one planet at fn_lon over fn_cusps.
ApplyAssignHouse ==
  /\ fn_op = "none"
  /\ fn_op' = "assign_house"
  /\ fn_ret' = Returned(assign_house(fn_cusps, fn_lon))
  /\ UNCHANGED << fn_lon, fn_cusps >>
  /\ UNCHANGED << chart_vars, consult_vars >>

\* calculate_dasha_periods(fn_lon)
ApplyDashaPeriods ==
  /\ fn_op = "none"
  /\ fn_op' = "calculate_dasha_periods"
  /\ fn_ret' = Returned(calculate_dasha_periods(fn_lon))
  /\ UNCHANGED << fn_lon, fn_cusps >>
  /\ UNCHANGED << chart_vars, consult_vars >>

\* calculate_houses(jd, lat, lon) where swe.houses answers fn_cusps, or raises
\* because the house geometry is undefined; fn_ret.value is << the record >>, or
\* << >> when nothing is returned.
ApplyCalculateHouses ==
  /\ fn_op = "none"
  /\ fn_op' = "calculate_houses"
  /\ \/ fn_ret' = Returned(<< calculate_houses(swe_houses(fn_cusps)) >>)
     \/ fn_ret' = Raised(PyError("swisseph.Error", "houses failed"), << >>)
  /\ UNCHANGED << fn_lon, fn_cusps >>
  /\ UNCHANGED << chart_vars, consult_vars >>

FnNext ==
  \/ ApplyGetSign
  \/ ApplyGetSignOfTurned
  \/ ApplyGetNakshatra
  \/ ApplyAssignHouse
  \/ ApplyDashaPeriods
  \/ ApplyCalculateHouses

FnSpec == FnInit /\ [][FnNext]_vars

\* ------------------------------- calculate_divisional_charts on its own

Range(f) == {f[x] : x \in DOMAIN f}

\* The sidereal longitude calculate_planetary_positions stores for a planet at
\* instant j.
stored_longitude(j, planet) ==
  IF planet = "Ketu"
    THEN ketu_longitude(sidereal(swe_calc_ut(j, "Rahu"), j))
    ELSE sidereal(swe_calc_ut(j, planet), j)

\* The rounding of the double behind stored_longitude(j, planet).
stored_rounding(j, planet) ==
  IF planet = "Ketu"
    THEN ketu_rounding(swe_calc_ut(j, "Rahu"), j)
    ELSE difference_rounding(swe_calc_ut(j, planet), j)

\* The instants for which calculate_planetary_positions returns.
PositionsReturn(j) ==
  \A i \in 1..Len(PLANETS) :
    /\ ~get_sign_raises(stored_longitude(j, PLANETS[i]))
    /\ ~get_nakshatra_raises_at(stored_longitude(j, PLANETS[i]),
                                stored_rounding(j, PLANETS[i]))

\* The positions map of instant j after the house loop over cusps.
positions_of(j, cusps) ==
  [p \in Range(PLANETS) |->
     [position_record(stored_longitude(j, p), stored_rounding(j, p))
        EXCEPT !.house = assign_house(cusps, stored_longitude(j, p))]]

\* A positions map as generate_birth_chart hands it to
\* calculate_divisional_charts; nothing else of a chart is at hand.
DivInit ==
  /\ name = ""
  /\ birth \in {j \in 1..NumInstants : PositionsReturn(j)}
  /\ birth_place = ""
  /\ pc = "idle"
  /\ location = ""
  /\ coords = << >>
  /\ timezone_str = ""
  /\ jd = 0
  /\ houses = << >>
  /\ fn_cusps \in WellFormedCusps \cup MalformedCusps
  /\ positions = positions_of(birth, fn_cusps)
  /\ divisional_charts = << >>
  /\ dasha = << >>
  /\ result = << >>
  /\ error = NoError
  /\ failed_stage = ""
  /\ calls = << >>
  /\ returned_charts = << >>
  /\ fn_op = "none"
  /\ fn_lon = 0
  /\ fn_ret = << >>
  /\ ConsultIdle

\* calculate_divisional_charts(positions), called again and again on the same
\* map; fn_ret lists what the calls returned.
ApplyDivisionalCharts ==
  /\ pc = "idle"
  /\ Len(fn_ret) < DivisionalCalls
  /\ fn_op' = "calculate_divisional_charts"
  /\ fn_ret' = Append(fn_ret, Returned(calculate_divisional_charts(positions)))
  /\ positions' = positions_after_divisional(positions)
  /\ UNCHANGED << name, birth, birth_place, pc, location, coords, timezone_str, jd,
                  houses, divisional_charts, dasha, result, error, failed_stage,
                  calls, returned_charts >>
  /\ UNCHANGED << fn_lon, fn_cusps >>
  /\ UNCHANGED consult_vars

DivNext == ApplyDivisionalCharts

DivSpec == DivInit /\ [][DivNext]_vars

\* ------------------------------------------------- the replies of the model

\* No chart is being computed and no function is applied.
ChartIdle ==
  /\ name = ""
  /\ birth = 0
  /\ birth_place = ""
  /\ pc = "idle"
  /\ FreshLocals
  /\ returned_charts = << >>
  /\ FnIdle

\* if len(response.text) > 3000:
MaxReply == 3000

\* response.text = response.text[:2997] + "..."
KeptChars == 2997

\* A string is the sequence of its pieces, each piece so many characters of
\* some text; its length is the sum over the pieces.
RECURSIVE str_len(_)
str_len(s) == IF s = << >> THEN 0 ELSE Head(s).n + str_len(Tail(s))

piece(text, n) == [of |-> text, n |-> n]

\* The sizes of a model text and of an exception's message: none, and the
\* sizes around the limit.
Sizes == {0} \cup {MaxReply + d : d \in (0 - SizeMargin)..SizeMargin}

\* The sizes of str(e) of the AttributeError an assignment to a property
\* without setter raises: "can't set attribute" (19), "can't set attribute
\* 'text'" (26), "property 'text' of '<class>' object has no setter" (42 and
\* the class's name: 58 for a name of 16 characters, 65 for
\* GenerateContentResponse).
SetterMessageSizes == {19, 26, 58, 65}

\* What the assignment response.text = ... does on the object the model
\* returned: it sets the attribute (no error), or it raises AttributeError with
\* a message of so many characters (text is a property without setter).
AssignErrors == { << >> } \cup { << n >> : n \in SetterMessageSizes }

\* model.generate_content(prompt) returns a response whose text has so many
\* characters, or raises an exception whose str() has so many.
ModelOutcomes == [raises : BOOLEAN, size : Sizes, assign_error : AssignErrors]

\* if len(response.text) > 3000: response.text = response.text[:2997] + "..."
\* and then response.text is read. The cut is an assignment to the response
\* object, inside the try: when it raises, error holds the size of str(e) and
\* no text is returned.
truncate(outcome) ==
  IF outcome.size > MaxReply
    THEN IF outcome.assign_error # << >>
           THEN [ error |-> outcome.assign_error, text |-> << >> ]
           ELSE [ error |-> << >>,
                  text  |-> << piece("response.text", KeptChars), piece("...", 3) >> ]
    ELSE [ error |-> << >>, text |-> << piece("response.text", outcome.size) >> ]

\* The try block of a reply method: the model call and the cut. error holds the
\* size of str(e) of the exception that reaches the except branch.
try_block(outcome) ==
  IF outcome.raises
    THEN [ error |-> << outcome.size >>, text |-> << >> ]
    ELSE truncate(outcome)

\* f"Maaf kijiye, kuch technical problem aa raha hai. Please try again. (Error: {str(e)})"
detect_error_reply(size) ==
  << piece("Maaf kijiye, kuch technical problem aa raha hai. Please try again. (Error: ", 75),
     piece("str(e)", size), piece(")", 1) >>

\* f"Marriage prediction mein kuch problem aa raha hai. Please try again. (Error: {str(e)})"
marriage_error_reply(size) ==
  << piece("Marriage prediction mein kuch problem aa raha hai. Please try again. (Error: ", 77),
     piece("str(e)", size), piece(")", 1) >>

\* f"Career prediction mein kuch problem aa raha hai. Please try again. (Error: {str(e)})"
career_error_reply(size) ==
  << piece("Career prediction mein kuch problem aa raha hai. Please try again. (Error: ", 75),
     piece("str(e)", size), piece(")", 1) >>

\* "Maaf kijiye Beta, kuch technical problem aa raha hai. Aap thoda der baad
\* dobara try karein. Main aapki help karunga. (folded hands)"
contextual_fallback ==
  << piece("Maaf kijiye Beta, kuch technical problem aa raha hai. Aap thoda der baad dobara try karein. Main aapki help karunga.", 118) >>

\* GeminiAstrologer.detect_context_and_respond: try: the model call, the cut,
\* return response.text; except Exception as e: the error reply.
detect_context_and_respond(outcome) ==
  LET tried == try_block(outcome)
  IN  IF tried.error # << >> THEN detect_error_reply(tried.error[1]) ELSE tried.text

\* GeminiAstrologer.generate_marriage_prediction
generate_marriage_prediction(outcome) ==
  LET tried == try_block(outcome)
  IN  IF tried.error # << >> THEN marriage_error_reply(tried.error[1]) ELSE tried.text

\* GeminiAstrologer.generate_career_prediction
generate_career_prediction(outcome) ==
  LET tried == try_block(outcome)
  IN  IF tried.error # << >> THEN career_error_reply(tried.error[1]) ELSE tried.text

\* ConversationContextManager.generate_contextual_response: the same cut; the
\* reply on an exception is a fixed string.
generate_contextual_response(outcome) ==
  LET tried == try_block(outcome)
  IN  IF tried.error # << >> THEN contextual_fallback ELSE tried.text

ReplyMethods ==
  { "detect_context_and_respond", "generate_marriage_prediction",
    "generate_career_prediction", "generate_contextual_response" }

\* One reply method about to be called, and what its model call will do.
ReplyInit ==
  /\ ChartIdle
  /\ LogIdle
  /\ BotIdle
  /\ reply_method \in ReplyMethods
  /\ model_outcome \in ModelOutcomes
  /\ reply_ret = << >>

ApplyDetectContextAndRespond ==
  /\ reply_method = "detect_context_and_respond"
  /\ reply_ret = << >>
  /\ reply_ret' = << detect_context_and_respond(model_outcome) >>
  /\ UNCHANGED << reply_method, model_outcome >>
  /\ UNCHANGED << chart_vars, fn_vars, log_vars, bot_vars >>

ApplyGenerateMarriagePrediction ==
  /\ reply_method = "generate_marriage_prediction"
  /\ reply_ret = << >>
  /\ reply_ret' = << generate_marriage_prediction(model_outcome) >>
  /\ UNCHANGED << reply_method, model_outcome >>
  /\ UNCHANGED << chart_vars, fn_vars, log_vars, bot_vars >>

ApplyGenerateCareerPrediction ==
  /\ reply_method = "generate_career_prediction"
  /\ reply_ret = << >>
  /\ reply_ret' = << generate_career_prediction(model_outcome) >>
  /\ UNCHANGED << reply_method, model_outcome >>
  /\ UNCHANGED << chart_vars, fn_vars, log_vars, bot_vars >>

ApplyGenerateContextualResponse ==
  /\ reply_method = "generate_contextual_response"
  /\ reply_ret = << >>
  /\ reply_ret' = << generate_contextual_response(model_outcome) >>
  /\ UNCHANGED << reply_method, model_outcome >>
  /\ UNCHANGED << chart_vars, fn_vars, log_vars, bot_vars >>

ReplyNext ==
  \/ ApplyDetectContextAndRespond
  \/ ApplyGenerateMarriagePrediction
  \/ ApplyGenerateCareerPrediction
  \/ ApplyGenerateContextualResponse

ReplySpec == ReplyInit /\ [][ReplyNext]_vars

\* ------------------------------------- the chat log and the context manager

\* message_type: 'user', 'bot', 'system'
MessageTypes == {"user", "bot", "system"}

\* How many messages the chat files hold.
RECURSIVE num_logged(_)
num_logged(files) ==
  IF files = << >> THEN 0 ELSE Len(Head(files)) + num_logged(Tail(files))

\* ChatLogger.log_message: timestamp = datetime.now(); the file is named after
\* the user and the second of the timestamp, so a message logged in the second
\* of the previous one is appended to the newest file and a message logged in
\* a later second opens a new file.  Timestamps grow with every message: a
\* timestamp is the number of the message.
log_message(files, same_second, message_type, content) ==
  LET message_entry == [ timestamp    |-> num_logged(files) + 1,
                         message_type |-> message_type,
                         content      |-> content ]
  IN  IF files # << >> /\ same_second
        THEN [files EXCEPT ![Len(files)] = Append(@, message_entry)]
        ELSE Append(files, << message_entry >>)

\* sorted(chat_files, key=lambda x: x.stat().st_mtime, reverse=True): the file
\* written last comes first.
get_user_chats(files) == [i \in 1..Len(files) |-> [file |-> Len(files) - i + 1,
                                                   messages |-> files[Len(files) - i + 1]]]

\* seq[:n]
first_n(seq, n) == SubSeq(seq, 1, IF n < Len(seq) THEN n ELSE Len(seq))

\* seq[-n:], n >= 1
last_n(seq, n) == SubSeq(seq, (IF n < Len(seq) THEN Len(seq) - n ELSE 0) + 1, Len(seq))

\* recent_messages.sort(key=lambda x: x["timestamp"], reverse=True)
RECURSIVE sort_newest_first(_)
sort_newest_first(msgs) ==
  IF msgs = << >>
    THEN << >>
    ELSE LET i == CHOOSE k \in 1..Len(msgs) :
                    \A j \in 1..Len(msgs) : msgs[j].timestamp <= msgs[k].timestamp
         IN  << msgs[i] >> \o
             sort_newest_first(SubSeq(msgs, 1, i - 1) \o SubSeq(msgs, i + 1, Len(msgs)))

\* for chat_file in chat_files[:3]: for msg in messages[-limit:]: append
RECURSIVE collect_recent(_, _)
collect_recent(chats, limit) ==
  IF chats = << >>
    THEN << >>
    ELSE LET kept == last_n(Head(chats).messages, limit)
         IN  [i \in 1..Len(kept) |-> [ timestamp    |-> kept[i].timestamp,
                                       message_type |-> kept[i].message_type,
                                       content      |-> kept[i].content,
                                       chat_file    |-> Head(chats).file ]]
             \o collect_recent(Tail(chats), limit)

\* ChatLogger.get_recent_messages(username, user_id, limit)
get_recent_messages(files, limit) ==
  first_n(sort_newest_first(collect_recent(first_n(get_user_chats(files), 3), limit)),
          limit)

\* ConversationContextManager.get_conversation_history: the recent messages,
\* each as role, content, timestamp and context; a recent message carries no
\* metadata, so the context is "general".
get_conversation_history(files, limit) ==
  LET recent_messages == get_recent_messages(files, limit)
  IN  [i \in 1..Len(recent_messages) |->
         [ role      |-> IF recent_messages[i].message_type = "user"
                           THEN "user" ELSE "assistant",
           content   |-> recent_messages[i].content,
           timestamp |-> recent_messages[i].timestamp,
           context   |-> "general" ]]

\* history_text: for msg in conversation_history[-5:]: f"{role}: {msg['content']}\n"
previous_conversation(conversation_history) ==
  LET shown == last_n(conversation_history, 5)
  IN  [i \in 1..Len(shown) |->
         [ role      |-> IF shown[i].role = "user" THEN "User" ELSE "Assistant",
           content   |-> shown[i].content,
           timestamp |-> shown[i].timestamp ]]

\* What the analysis call does: it raises, or returns a text: a JSON object, a
\* JSON object inside a json code fence, a JSON list, or no JSON at all.
AnalysisOutcomes ==
  { [raises |-> TRUE,  fence |-> "",        body |-> ""],
    [raises |-> FALSE, fence |-> "",        body |-> "object"],
    [raises |-> FALSE, fence |-> "json fence", body |-> "object"],
    [raises |-> FALSE, fence |-> "",        body |-> "list"],
    [raises |-> FALSE, fence |-> "",        body |-> "prose"] }

\* What the response call does: a text over the limit on a response whose
\* text can be assigned, the same on one whose text cannot, or an exception.
ResponseOutcomes ==
  { [raises |-> FALSE, size |-> MaxReply + 1, assign_error |-> << >>],
    [raises |-> FALSE, size |-> MaxReply + 1, assign_error |-> << 65 >>],
    [raises |-> TRUE,  size |-> 0,            assign_error |-> << >>] }

\* if response_text.startswith(fence): the fences are replaced by nothing.
strip_fences(text) == [text EXCEPT !.fence = ""]

\* json.loads raises JSONDecodeError on a text that is no JSON.
json_loads_raises(text) == text.fence # "" \/ text.body = "prose"

\* The analysis the model wrote, parsed.
model_analysis ==
  [ question_category |-> "career", user_concern |-> "in the model's words" ]

\* The default structure of the except branch.
default_analysis(user_message) ==
  [ question_category |-> "general", user_concern |-> user_message ]

\* analyze_context_and_prepare_response: one model call; the parsed object, or
\* the default structure when the call raises, the text is no JSON, or the
\* parsed value is no object (analysis_result.get raises AttributeError).
analyze_context_and_prepare_response(user_message, conversation_history, outcome) ==
  [ call     |-> [ prompt       |-> "analysis",
                   user_message |-> user_message,
                   history_text |-> previous_conversation(conversation_history) ],
    analysis |-> IF /\ ~outcome.raises
                    /\ ~json_loads_raises(strip_fences(outcome))
                    /\ outcome.body = "object"
                   THEN model_analysis
                   ELSE default_analysis(user_message) ]

\* The response call of generate_contextual_response: its prompt holds
\* json.dumps(context_analysis, indent=2).
response_call(user_message, context_analysis) ==
  [ prompt           |-> "response",
    user_message     |-> user_message,
    context_analysis |-> context_analysis ]

process_user_message_OneCall(files, user_message, analysis_outcome, response_outcome) ==
  LET conversation_history == get_conversation_history(files, 10)
      step2 == analyze_context_and_prepare_response(user_message, conversation_history,
                                                    analysis_outcome)
      failed == step2.analysis = default_analysis(user_message)
  IN  [ history_text |-> step2.call.history_text,
        calls        |-> IF failed THEN << step2.call >>
                         ELSE << step2.call, response_call(user_message, step2.analysis) >>,
        ret          |-> IF failed THEN << contextual_fallback, EmptyDict >>
                         ELSE << generate_contextual_response(response_outcome),
                                 step2.analysis >> ]

\* ConversationContextManager.process_user_message: the history with limit 10,
\* the analysis, the response; returns (response_text, context_analysis).
process_user_message(files, user_message, analysis_outcome, response_outcome) ==
  LET conversation_history == get_conversation_history(files, 10)
      step2 == analyze_context_and_prepare_response(user_message, conversation_history,
                                                    analysis_outcome)
  IN  [ history_text |-> step2.call.history_text,
        calls        |-> << step2.call, response_call(user_message, step2.analysis) >>,
        ret          |-> << generate_contextual_response(response_outcome),
                            step2.analysis >> ]

\* The limits get_recent_messages is asked with: 10 is the default and the
\* history's limit.
Limits == {1, 3, 10}

UserMessages == {"career ke bare mein bataiye"}

\* A new user: no chat file yet.
LogInit ==
  /\ ChartIdle
  /\ ReplyIdle
  /\ LogIdle
  /\ BotIdle

\* log_user_message(user_id, username, message, context)
LogUserMessage ==
  /\ num_logged(chat_files) < MaxLogged
  /\ \E same_second \in BOOLEAN, message \in UserMessages :
       chat_files' = log_message(chat_files, same_second, "user", message)
  /\ recent' = << >>
  /\ history_block' = << >>
  /\ model_calls' = << >>
  /\ pm_ret' = << >>
  /\ UNCHANGED << chart_vars, fn_vars, reply_vars, bot_vars >>

\* log_bot_response(user_id, username, response, context)
LogBotResponse ==
  /\ num_logged(chat_files) < MaxLogged
  /\ \E same_second \in BOOLEAN :
       chat_files' = log_message(chat_files, same_second, "bot", "response")
  /\ recent' = << >>
  /\ history_block' = << >>
  /\ model_calls' = << >>
  /\ pm_ret' = << >>
  /\ UNCHANGED << chart_vars, fn_vars, reply_vars, bot_vars >>

\* log_system_event(user_id, username, event, details)
LogSystemEvent ==
  /\ num_logged(chat_files) < MaxLogged
  /\ \E same_second \in BOOLEAN :
       chat_files' = log_message(chat_files, same_second, "system", "System event: event")
  /\ recent' = << >>
  /\ history_block' = << >>
  /\ model_calls' = << >>
  /\ pm_ret' = << >>
  /\ UNCHANGED << chart_vars, fn_vars, reply_vars, bot_vars >>

\* get_recent_messages(username, user_id, limit)
GetRecentMessages ==
  /\ \E limit \in Limits :
       recent' = << [limit |-> limit, messages |-> get_recent_messages(chat_files, limit)] >>
  /\ history_block' = << >>
  /\ model_calls' = << >>
  /\ pm_ret' = << >>
  /\ UNCHANGED chat_files
  /\ UNCHANGED << chart_vars, fn_vars, reply_vars, bot_vars >>

\* process_user_message(user_message, chart_data, user_name, user_id, username)
ProcessUserMessage ==
  /\ \E user_message \in UserMessages, analysis_outcome \in AnalysisOutcomes,
        response_outcome \in ResponseOutcomes :
       LET done == process_user_message(chat_files, user_message, analysis_outcome,
                                        response_outcome)
       IN  /\ history_block' = << done.history_text >>
           /\ model_calls' = done.calls
           /\ pm_ret' = << [ response_text    |-> done.ret[1],
                             context_analysis |-> done.ret[2],
                             user_message     |-> user_message,
                             analysis_outcome |-> analysis_outcome,
                             response_outcome |-> response_outcome ] >>
  /\ recent' = << >>
  /\ UNCHANGED chat_files
  /\ UNCHANGED << chart_vars, fn_vars, reply_vars, bot_vars >>

LogNext ==
  \/ LogUserMessage
  \/ LogBotResponse
  \/ LogSystemEvent
  \/ GetRecentMessages
  \/ ProcessUserMessage

LogSpec == LogInit /\ [][LogNext]_vars

\* ------------------------------------------------------ the bot's handlers

\* required_fields = ['name', 'birth_date', 'birth_time', 'birth_place']
required_fields == {"name", "birth_date", "birth_time", "birth_place"}

\* d[key] = value
put(d, key, value) == [k \in DOMAIN d \cup {key} |-> IF k = key THEN value ELSE d[k]]

\* d.update(other)
update(d, other) ==
  [k \in DOMAIN d \cup DOMAIN other |-> IF k \in DOMAIN other THEN other[k] ELSE d[k]]

\* bool(value) of a string
truthy(value) == value # ""

\* {'asked_questions': [], 'last_question': None, 'last_category': None, ...}
empty_memory ==
  [ asked_questions |-> << >>, last_question |-> "None", last_category |-> "None" ]

\* The texts a user sends: a name, a question, and a correction of the birth
\* place.
Texts == {"asha", "career ke bare mein bataiye", "mera janm sthan Pune hai"}

\* not any(ch.isdigit() for ch in user_message) and len(user_message.split()) <= 4
looks_like_name(text) == text = "asha"

\* user_message.strip().title()
title(text) ==
  CASE text = "asha" -> "Asha"
    [] text = "career ke bare mein bataiye" -> "Career Ke Bare Mein Bataiye"
    [] text = "mera janm sthan Pune hai" -> "Mera Janm Sthan Pune Hai"

\* The extracted_birth_details of the analysis of a consultation message: the
\* details the message states.
extracted_birth_details(text) ==
  IF text = "mera janm sthan Pune hai" THEN [birth_place |-> "Pune"] ELSE EmptyDict

\* The updated_details the onboarding model returns: nothing, one detail (a
\* date also in the DD/MM/YYYY form the prompt's example asks for, a place also
\* empty), or all four.
DetailUpdates ==
  { EmptyDict,
    [name |-> "Asha"],
    [birth_date |-> "1990-01-01"],
    [birth_date |-> "01/01/1990"],
    [birth_time |-> "10:30"],
    [birth_place |-> "Delhi"],
    [birth_place |-> "Pune"],
    [birth_place |-> ""],
    [name |-> "Asha", birth_date |-> "1990-01-01", birth_time |-> "10:30",
     birth_place |-> "Delhi"] }

\* What the onboarding model call does: it raises, returns a text that is no
\* JSON, or returns a JSON object with or without updated_details and next_state.
OnboardingOutcomes ==
  { [kind |-> "raises", updated_details |-> << >>, next_state |-> "absent"],
    [kind |-> "prose",  updated_details |-> << >>, next_state |-> "absent"] }
  \cup [ kind : {"object"},
         updated_details : {<< >>} \cup {<< d >> : d \in DetailUpdates},
         next_state : {"absent", "collecting", "complete"} ]

\* What generate_birth_chart does, and what the database session does.
ChartOutcomes == {"returned", "raised"}

DbOutcomes == {"committed", "failed"}

\* datetime.strptime(birth_date_str, "%Y-%m-%d"), strptime(birth_time_str, "%H:%M")
parses_date(text) == text = "1990-01-01"

parses_time(text) == text = "10:30"

\* The chart generate_birth_chart returns for these arguments: what of it the
\* handlers read.
generated_chart(name_, birth_date, birth_time, place) ==
  [ name        |-> name_,
    birth_date  |-> birth_date,
    birth_time  |-> birth_time,
    birth_place |-> place,
    coordinates |-> [latitude |-> << "latitude of", place >>,
                     longitude |-> << "longitude of", place >>],
    timezone    |-> "Asia/Kolkata" ]

entry(message_type, context) == [message_type |-> message_type, context |-> context]

calculate_and_save_chart_StoresFirst(data, row, birth_details, chart_outcome, db_outcome) ==
  LET name_  == dict_get(birth_details, "name", "Unknown")
      date_  == dict_get(birth_details, "birth_date", "")
      time_  == dict_get(birth_details, "birth_time", "")
      place  == dict_get(birth_details, "birth_place", "")
      chart  == generated_chart(name_, date_, time_, place)
      stored == put(data, "chart_data", chart)
      failed == [ db_row |-> row,
                  reply |-> << "chart calculation error" >>,
                  log |-> << entry("system", "chart_calculation_started") >> ]
  IN  IF ~(parses_date(date_) /\ parses_time(time_))
        THEN failed @@ [user_data |-> stored, outcome |-> "parse failed"]
      ELSE IF chart_outcome = "raised"
        THEN failed @@ [user_data |-> stored, outcome |-> "generation failed"]
      ELSE IF db_outcome = "failed"
        THEN failed @@ [user_data |-> stored, outcome |-> "database failed"]
      ELSE [ user_data |-> stored,
             db_row |-> << [ name |-> name_, birth_date |-> date_, birth_time |-> time_,
                             birth_place |-> place,
                             latitude |-> chart.coordinates.latitude,
                             longitude |-> chart.coordinates.longitude,
                             timezone |-> chart.timezone,
                             chart_data |-> chart,
                             onboarding_complete |-> TRUE ] >>,
             reply |-> << >>,
             log |-> << entry("system", "chart_calculation_started") >>,
             outcome |-> "stored" ]

\* AstrologyBot._calculate_and_save_chart up to its return or to the await of
\* its except: the system event; try: parse the date and the time, generate the
\* chart, put it into user_data, write the user's row and commit; except: the
\* error reply it awaits (reply), logged once Telegram took it.
calculate_and_save_chart(data, row, birth_details, chart_outcome, db_outcome) ==
  LET name_  == dict_get(birth_details, "name", "Unknown")
      date_  == dict_get(birth_details, "birth_date", "")
      time_  == dict_get(birth_details, "birth_time", "")
      place  == dict_get(birth_details, "birth_place", "")
      chart  == generated_chart(name_, date_, time_, place)
      stored == put(data, "chart_data", chart)
      failed == [ db_row |-> row,
                  reply |-> << "chart calculation error" >>,
                  log |-> << entry("system", "chart_calculation_started") >> ]
  IN  IF ~(parses_date(date_) /\ parses_time(time_))
        THEN failed @@ [user_data |-> data, outcome |-> "parse failed"]
      ELSE IF chart_outcome = "raised"
        THEN failed @@ [user_data |-> data, outcome |-> "generation failed"]
      ELSE IF db_outcome = "failed"
        THEN failed @@ [user_data |-> stored, outcome |-> "database failed"]
      ELSE [ user_data |-> stored,
             db_row |-> << [ name |-> name_, birth_date |-> date_, birth_time |-> time_,
                             birth_place |-> place,
                             latitude |-> chart.coordinates.latitude,
                             longitude |-> chart.coordinates.longitude,
                             timezone |-> chart.timezone,
                             chart_data |-> chart,
                             onboarding_complete |-> TRUE ] >>,
             reply |-> << >>,
             log |-> << entry("system", "chart_calculation_started") >>,
             outcome |-> "stored" ]

\* The names handle_consultation has bound when it builds the arguments of
\* process_user_message: its parameters and the locals assigned before the
\* call.  language is assigned in handle_onboarding, cancel, show_history and
\* reset_memory only, and the module has no global of that name.
consultation_names ==
  { "self", "update", "context", "user", "user_message", "birth_details",
    "required_fields", "missing_fields", "chart_data", "conversation_memory",
    "question_lower", "category", "clarification_keywords", "user_name" }

\* def process_user_message(self, user_message, chart_data, user_name, user_id, username)
process_user_message_parameters ==
  { "user_message", "chart_data", "user_name", "user_id", "username" }

\* The inner try of handle_consultation.  The call
\*   process_user_message(..., language_preference=language)
\* reads language: a NameError, and the inner except reads language again, so
\* the NameError reaches the outer except, which awaits the technical-problem
\* reply and logs it as "error".  Were language bound, the keyword
\* language_preference, which process_user_message does not take, would raise
\* TypeError and the inner except would await the same reply, logged as
\* "consultation_error".  sent is the reply awaited next, log its log entry.
context_aware_response ==
  IF "language" \notin consultation_names
    THEN [ sent |-> << "technical problem" >>, log |-> << entry("bot", "error") >>,
           process_user_message_called |-> FALSE ]
  ELSE IF "language_preference" \notin process_user_message_parameters
    THEN [ sent |-> << "technical problem" >>,
           log |-> << entry("bot", "consultation_error") >>,
           process_user_message_called |-> FALSE ]
  ELSE [ sent |-> << "generated response" >>, log |-> << entry("bot", "consultation") >>,
         process_user_message_called |-> TRUE ]

\* for msg in conversation_history: if msg.get("message_type") == "user": the
\* history's entries have the keys role, content, timestamp and context.
pending_concern(conversation_history) ==
  \E i \in 1..Len(conversation_history) :
    dict_get(conversation_history[i], "message_type", "None") = "user"

\* start before its await: context.user_data.clear(), then the first keys of a
\* new session.
start_user_data(data) ==
  update(EmptyDict,
         [ onboarding_state    |-> "start",
           birth_details       |-> EmptyDict,
           conversation_memory |-> empty_memory ])

\* start after its await: the language keys.
language_keys ==
  [ awaiting_language_preference |-> TRUE, language_preference |-> "None" ]

\* if 'conversation_memory' not in context.user_data: a new memory.
with_memory(data) ==
  IF "conversation_memory" \notin DOMAIN data
    THEN put(data, "conversation_memory", empty_memory)
    ELSE data

reset_user_data_ClearsDetails(data) ==
  IF "conversation_memory" \in DOMAIN data
    THEN put(put(data, "conversation_memory", empty_memory), "birth_details", EmptyDict)
    ELSE data

\* reset_memory: if 'conversation_memory' in context.user_data: a new memory.
reset_user_data(data) ==
  IF "conversation_memory" \in DOMAIN data
    THEN put(data, "conversation_memory", empty_memory)
    ELSE data

\* The handler that starts now, and what it finds.
Handled(handler, chart, text) ==
  [ handler |-> handler, chart |-> chart, text |-> text, data_before |-> user_data,
    row_before |-> db_row, ended |-> "running", raised |-> << >> ]

\* The bot was started; the user has sent nothing.
BotInit ==
  /\ ChartIdle
  /\ ReplyIdle
  /\ LogIdle
  /\ BotIdle

\* A handler is a coroutine.  The Application (built without concurrent
\* updates) hands it one update and awaits it; the handler runs to its next
\* awaited Telegram call, where it is suspended with what it has written so
\* far, and goes on when the call returns, or in its except, or not at all,
\* when the call raises.

\* The handler is suspended at the awaited call.
Awaiting(handler, call, text) == [handler |-> handler, awaits |-> call, text |-> text]

\* The suspended handler goes on to its next awaited call.
AwaitNext(call) == task' = [task EXCEPT !.awaits = call]

\* return state: the ConversationHandler takes the state the handler returned.
Return(state) ==
  /\ conv_state' = state
  /\ task' = NoTask
  /\ last' = [last EXCEPT !.ended = "returned"]

\* The awaited call raised and no try encloses it: the exception leaves the
\* handler, the ConversationHandler keeps the user's state and the error
\* handler logs the exception.
RaiseOn ==
  /\ task' = NoTask
  /\ last' = [last EXCEPT !.ended = "raised", !.raised = Append(@, task.awaits)]
  /\ UNCHANGED conv_state

\* The awaited call raised inside the try: the outer except awaits the
\* technical-problem reply.
Except ==
  /\ AwaitNext("technical problem")
  /\ last' = [last EXCEPT !.raised = Append(@, task.awaits)]
  /\ UNCHANGED conv_state

\* Telegram took the reply; it is logged as a bot response of the context.
Replied(context) ==
  /\ sent' = Append(sent, task.awaits)
  /\ bot_log' = Append(bot_log, entry("bot", context))

\* /start, the entry point, handled when the user has no conversation: up to
\* await update.message.reply_text(welcome_message).
Start ==
  /\ task = NoTask
  /\ conv_state = "END"
  /\ bot_log' = << entry("user", "command") >>
  /\ sent' = << >>
  /\ user_data' = start_user_data(user_data)
  /\ task' = Awaiting("start", "welcome", "/start")
  /\ last' = Handled("start", "not asked", "/start")
  /\ UNCHANGED << conv_state, db_row >>
  /\ UNCHANGED << chart_vars, fn_vars, reply_vars, log_vars >>

\* start after reply_text returned: the language keys, the log, ONBOARDING.
StartAwaitReturns ==
  /\ task.handler = "start"
  /\ user_data' = update(user_data, language_keys)
  /\ Replied("welcome")
  /\ Return("ONBOARDING")
  /\ UNCHANGED db_row
  /\ UNCHANGED << chart_vars, fn_vars, reply_vars, log_vars >>

\* start when reply_text raised: start has no try.
StartAwaitRaises ==
  /\ task.handler = "start"
  /\ RaiseOn
  /\ UNCHANGED << user_data, db_row, sent, bot_log >>
  /\ UNCHANGED << chart_vars, fn_vars, reply_vars, log_vars >>

\* A text message in ONBOARDING: up to await send_action("typing").
HandleOnboarding ==
  /\ task = NoTask
  /\ conv_state = "ONBOARDING"
  /\ \E text \in Texts :
       /\ task' = Awaiting("handle_onboarding", "typing", text)
       /\ last' = Handled("handle_onboarding", "not asked", text)
  /\ bot_log' = << entry("user", "onboarding") >>
  /\ sent' = << >>
  /\ UNCHANGED << conv_state, user_data, db_row >>
  /\ UNCHANGED << chart_vars, fn_vars, reply_vars, log_vars >>

\* handle_onboarding after send_action returned: the try, up to the reply it
\* awaits (the model's response, the fallback for a text that is no JSON, or
\* the technical-problem reply of the outer except).
OnboardingModelCall(outcome) ==
  LET current_state == dict_get(user_data, "onboarding_state", "start")
      held == dict_get(user_data, "birth_details", EmptyDict)
      captured == /\ ~truthy(dict_get(held, "name", ""))
                  /\ looks_like_name(task.text)
      named == IF captured THEN put(held, "name", title(task.text)) ELSE held
      data1 == IF captured THEN put(user_data, "birth_details", named) ELSE user_data
      updated == IF outcome.updated_details # << >>
                   THEN update(named, outcome.updated_details[1]) ELSE named
      data2 == IF outcome.updated_details # << >>
                 THEN put(data1, "birth_details", updated) ELSE data1
      next_state == IF outcome.next_state = "absent"
                      THEN current_state ELSE outcome.next_state
      data3 == put(data2, "onboarding_state", next_state)
  IN  CASE outcome.kind = "raises" ->
             /\ user_data' = data1
             /\ AwaitNext("technical problem")
        [] outcome.kind = "prose" ->
             /\ user_data' = data1
             /\ AwaitNext("onboarding fallback")
        [] outcome.kind = "object" ->
             /\ user_data' = data3
             /\ AwaitNext("model response")

\* handle_onboarding after reply_text(user_response) returned: the log and,
\* when onboarding is complete, the consultation state, the system event and
\* the pending concern, whose call of process_user_message with the keyword
\* language_preference raises TypeError into the outer except.
OnboardingResponseSent ==
  LET history == get_conversation_history(log_message(<< >>, FALSE, "user", task.text), 10)
  IN  /\ sent' = Append(sent, "model response")
      /\ IF user_data.onboarding_state = "complete"
           THEN /\ user_data' = put(user_data, "consultation_state", "ready")
                /\ bot_log' = bot_log \o << entry("bot", "onboarding"),
                                            entry("system", "onboarding_complete") >>
                /\ AwaitNext(IF pending_concern(history)
                               THEN "technical problem" ELSE "onboarding prompt")
                /\ UNCHANGED << conv_state, last >>
           ELSE /\ bot_log' = Append(bot_log, entry("bot", "onboarding"))
                /\ Return("ONBOARDING")
                /\ UNCHANGED user_data

\* handle_onboarding when the call it awaits returns.
HandleOnboardingAwaitReturns ==
  /\ task.handler = "handle_onboarding"
  /\ CASE task.awaits = "typing" ->
            /\ \E outcome \in OnboardingOutcomes : OnboardingModelCall(outcome)
            /\ UNCHANGED << conv_state, sent, bot_log, last >>
       [] task.awaits = "model response" ->
            OnboardingResponseSent
       [] task.awaits = "onboarding prompt" ->
            /\ Replied("onboarding_prompt")
            /\ Return("CONSULTATION")
            /\ UNCHANGED user_data
       [] task.awaits = "onboarding fallback" ->
            /\ Replied("onboarding_fallback")
            /\ Return("ONBOARDING")
            /\ UNCHANGED user_data
       [] task.awaits = "technical problem" ->
            /\ Replied("error")
            /\ Return("ONBOARDING")
            /\ UNCHANGED user_data
  /\ UNCHANGED db_row
  /\ UNCHANGED << chart_vars, fn_vars, reply_vars, log_vars >>

\* handle_onboarding when the call it awaits raises: send_action stands before
\* the try and the technical-problem reply in the outer except; every other
\* reply stands inside the try.
HandleOnboardingAwaitRaises ==
  /\ task.handler = "handle_onboarding"
  /\ IF task.awaits \in {"typing", "technical problem"} THEN RaiseOn ELSE Except
  /\ UNCHANGED << user_data, db_row, sent, bot_log >>
  /\ UNCHANGED << chart_vars, fn_vars, reply_vars, log_vars >>

\* A text message in CONSULTATION: up to await send_action("typing").
HandleConsultation ==
  /\ task = NoTask
  /\ conv_state = "CONSULTATION"
  /\ \E text \in Texts :
       /\ task' = Awaiting("handle_consultation", "typing", text)
       /\ last' = Handled("handle_consultation", "not asked", text)
  /\ bot_log' = << entry("user", "consultation") >>
  /\ sent' = << >>
  /\ UNCHANGED << conv_state, user_data, db_row >>
  /\ UNCHANGED << chart_vars, fn_vars, reply_vars, log_vars >>

\* handle_consultation after send_action returned: the try, up to the reply it
\* awaits (the missing-details reply, the error reply in the except of
\* _calculate_and_save_chart, or the reply of the inner try).
ConsultationChart(chart_outcome, db_outcome) ==
  LET birth_details == dict_get(user_data, "birth_details", EmptyDict)
      missing_fields == {field \in required_fields :
                           field \notin DOMAIN birth_details \/ ~truthy(birth_details[field])}
      chart == IF "chart_data" \notin DOMAIN user_data
                 THEN calculate_and_save_chart(user_data, db_row, birth_details,
                                               chart_outcome, db_outcome)
                 ELSE [ user_data |-> user_data, db_row |-> db_row, reply |-> << >>,
                        log |-> << >>, outcome |-> "held" ]
  IN  IF missing_fields # {}
        THEN /\ AwaitNext("missing details")
             /\ UNCHANGED << user_data, db_row, bot_log, last >>
        ELSE /\ db_row' = chart.db_row
             /\ bot_log' = bot_log \o chart.log
             /\ last' = [last EXCEPT !.chart = chart.outcome]
             /\ IF chart.reply # << >>
                  THEN /\ user_data' = chart.user_data
                       /\ AwaitNext(chart.reply[1])
                  ELSE /\ user_data' = with_memory(chart.user_data)
                       /\ AwaitNext(context_aware_response.sent[1])

\* handle_consultation when the call it awaits returns.
HandleConsultationAwaitReturns ==
  /\ task.handler = "handle_consultation"
  /\ CASE task.awaits = "typing" ->
            /\ \E chart_outcome \in ChartOutcomes, db_outcome \in DbOutcomes :
                 ConsultationChart(chart_outcome, db_outcome)
            /\ UNCHANGED << conv_state, sent >>
       [] task.awaits = "missing details" ->
            /\ Replied("missing_details")
            /\ Return("END")
            /\ UNCHANGED << user_data, db_row >>
       [] task.awaits = "chart calculation error" ->
            /\ Replied("chart_calculation_error")
            /\ user_data' = with_memory(user_data)
            /\ AwaitNext(context_aware_response.sent[1])
            /\ UNCHANGED << conv_state, db_row, last >>
       [] task.awaits = "technical problem" ->
            /\ Replied("error")
            /\ Return("CONSULTATION")
            /\ UNCHANGED << user_data, db_row >>
  /\ UNCHANGED << chart_vars, fn_vars, reply_vars, log_vars >>

\* handle_consultation when the call it awaits raises: send_action stands
\* before the try and the technical-problem reply in the outer except; the
\* other replies stand inside the try, the one of _calculate_and_save_chart in
\* its except, which the exception leaves.
HandleConsultationAwaitRaises ==
  /\ task.handler = "handle_consultation"
  /\ IF task.awaits \in {"typing", "technical problem"} THEN RaiseOn ELSE Except
  /\ UNCHANGED << user_data, db_row, sent, bot_log >>
  /\ UNCHANGED << chart_vars, fn_vars, reply_vars, log_vars >>

\* /history in CONSULTATION: up to await update.message.reply_text(response).
ShowHistory ==
  /\ task = NoTask
  /\ conv_state = "CONSULTATION"
  /\ bot_log' = << entry("user", "command") >>
  /\ sent' = << >>
  /\ task' = Awaiting("show_history", "history", "/history")
  /\ last' = Handled("show_history", "not asked", "/history")
  /\ UNCHANGED << conv_state, user_data, db_row >>
  /\ UNCHANGED << chart_vars, fn_vars, reply_vars, log_vars >>

ShowHistoryAwaitReturns ==
  /\ task.handler = "show_history"
  /\ Replied("history")
  /\ Return("CONSULTATION")
  /\ UNCHANGED << user_data, db_row >>
  /\ UNCHANGED << chart_vars, fn_vars, reply_vars, log_vars >>

\* show_history has no try.
ShowHistoryAwaitRaises ==
  /\ task.handler = "show_history"
  /\ RaiseOn
  /\ UNCHANGED << user_data, db_row, sent, bot_log >>
  /\ UNCHANGED << chart_vars, fn_vars, reply_vars, log_vars >>

\* /reset in CONSULTATION: up to await update.message.reply_text(response).
ResetMemory ==
  /\ task = NoTask
  /\ conv_state = "CONSULTATION"
  /\ bot_log' = << entry("user", "command") >>
  /\ sent' = << >>
  /\ user_data' = reset_user_data(user_data)
  /\ task' = Awaiting("reset_memory", "reset", "/reset")
  /\ last' = Handled("reset_memory", "not asked", "/reset")
  /\ UNCHANGED << conv_state, db_row >>
  /\ UNCHANGED << chart_vars, fn_vars, reply_vars, log_vars >>

ResetMemoryAwaitReturns ==
  /\ task.handler = "reset_memory"
  /\ sent' = Append(sent, "reset")
  /\ bot_log' = bot_log \o << entry("bot", "reset"),
                              entry("system", "conversation_memory_reset") >>
  /\ Return("CONSULTATION")
  /\ UNCHANGED << user_data, db_row >>
  /\ UNCHANGED << chart_vars, fn_vars, reply_vars, log_vars >>

\* reset_memory has no try.
ResetMemoryAwaitRaises ==
  /\ task.handler = "reset_memory"
  /\ RaiseOn
  /\ UNCHANGED << user_data, db_row, sent, bot_log >>
  /\ UNCHANGED << chart_vars, fn_vars, reply_vars, log_vars >>

\* /cancel, the fallback of both states: up to await update.message.reply_text.
Cancel ==
  /\ task = NoTask
  /\ conv_state \in {"ONBOARDING", "CONSULTATION"}
  /\ bot_log' = << entry("user", "command") >>
  /\ sent' = << >>
  /\ task' = Awaiting("cancel", "cancel", "/cancel")
  /\ last' = Handled("cancel", "not asked", "/cancel")
  /\ UNCHANGED << conv_state, user_data, db_row >>
  /\ UNCHANGED << chart_vars, fn_vars, reply_vars, log_vars >>

CancelAwaitReturns ==
  /\ task.handler = "cancel"
  /\ Replied("cancel")
  /\ Return("END")
  /\ UNCHANGED << user_data, db_row >>
  /\ UNCHANGED << chart_vars, fn_vars, reply_vars, log_vars >>

\* cancel has no try.
CancelAwaitRaises ==
  /\ task.handler = "cancel"
  /\ RaiseOn
  /\ UNCHANGED << user_data, db_row, sent, bot_log >>
  /\ UNCHANGED << chart_vars, fn_vars, reply_vars, log_vars >>

BotNext ==
  \/ Start
  \/ StartAwaitReturns
  \/ StartAwaitRaises
  \/ HandleOnboarding
  \/ HandleOnboardingAwaitReturns
  \/ HandleOnboardingAwaitRaises
  \/ HandleConsultation
  \/ HandleConsultationAwaitReturns
  \/ HandleConsultationAwaitRaises
  \/ ShowHistory
  \/ ShowHistoryAwaitReturns
  \/ ShowHistoryAwaitRaises
  \/ ResetMemory
  \/ ResetMemoryAwaitReturns
  \/ ResetMemoryAwaitRaises
  \/ Cancel
  \/ CancelAwaitReturns
  \/ CancelAwaitRaises

BotSpec == BotInit /\ [][BotNext]_vars

\* ----------------------------------------------------------------- claims

RECURSIVE SumSeq(_)
SumSeq(q) == IF q = << >> THEN 0 ELSE Head(q) + SumSeq(Tail(q))

\* Twelve cusps of [0,360) in cyclic order: exactly one cusp is followed
\* (cyclically) by a smaller one.
OneWraparound(cusps) ==
  /\ Len(cusps) = 12
  /\ \A i \in 1..12 : 0 <= cusps[i] /\ cusps[i] < Circle
  /\ Cardinality({i \in 1..12 : cusps[(i % 12) + 1] < cusps[i]}) = 1

\* The interval test of house i (1..12) as the claim words it.
IntervalTest(cusps, i, L) ==
  IF cusps[(i % 12) + 1] < cusps[i]
    THEN L >= cusps[i] \/ L < cusps[(i % 12) + 1]
    ELSE cusps[i] <= L /\ L < cusps[(i % 12) + 1]

\* C1: for twelve cusps in cyclic order with one wraparound and a longitude of
\* [0,360), exactly one house passes the interval test and the planet gets that
\* house, a number of 1..12; cusps [350, 20, 50, ...] and longitude 5 give house 1.
C1_HouseTotalExclusive ==
  (fn_op = "assign_house" /\ OneWraparound(fn_cusps)) =>
     /\ fn_ret.error = NoError
     /\ fn_ret.value \in 1..12
     /\ {i \in 1..12 : IntervalTest(fn_cusps, i, fn_lon)} = {fn_ret.value}
     /\ (fn_cusps = EqualHouses(Deg(350)) /\ fn_lon = Deg(5)) => fn_ret.value = 1

C1_Witness ==
  /\ fn_op = "assign_house"
  /\ fn_cusps = CuspSample(1)
  /\ fn_cusps[1] = Deg(350) /\ fn_cusps[2] = Deg(20) /\ fn_cusps[3] = Deg(50)
  /\ fn_lon = Deg(5)
  /\ fn_ret.value = 1

\* C2: generate_birth_chart never returns a chart in which a planet's house is
\* unset; cusps that contain no planet longitude make it fail instead.
C2_NoUnsetHouseReturned ==
  pc = "returned" =>
    \A p \in DOMAIN result[1].planets : result[1].planets[p].house # NoHouse

\* C3: for every longitude of [0,360) get_nakshatra returns one of the 27
\* nakshatras and a pada of 1..4.
C3_NakshatraInTable ==
  fn_op = "get_nakshatra" =>
    /\ fn_ret.error = NoError
    /\ fn_ret.value.name \in Range(NAKSHATRAS)
    /\ fn_ret.value.pada \in 1..4

\* C4: for every longitude L of [0,360) get_sign returns exactly one of the 12
\* signs, the sign of the 30-degree cell L lies in, counted from Aries, and the
\* same sign for (L + 360 * k) % 360, L being a sample longitude or the last
\* double below a sign boundary and k a whole number of turns.
C4_SignOfCell ==
  /\ fn_op = "get_sign" =>
       /\ fn_ret.error = NoError
       /\ Cardinality({i \in 1..12 : signs[i] = fn_ret.value}) = 1
       /\ \E i \in 0..11 :
            /\ i * SignSpan <= fn_lon /\ fn_lon < (i + 1) * SignSpan
            /\ fn_ret.value = signs[i + 1]
  /\ fn_op = "get_sign_of_turned" =>
       /\ fn_ret.error = NoError
       /\ fn_ret.value.sign = signs[sign_index(fn_lon) + 1]
       /\ fn_ret.value.turned_sign = fn_ret.value.sign

\* C5: whenever calculate_planetary_positions has produced Ketu, Ketu lies half
\* a circle from Rahu inside [0,360), its sign and nakshatra are those of that
\* longitude, Rahu at 100 puts Ketu at 280 in Capricorn, and the ephemeris was
\* never asked for Ketu.
C5_KetuOppositeRahu ==
  /\ \A c \in Range(calls) : c # << "calc_ut", "Ketu" >>
  /\ "Ketu" \in DOMAIN positions =>
       LET r == positions["Rahu"].longitude
           k == positions["Ketu"].longitude
       IN  /\ 0 <= k /\ k < Circle
           /\ k = r + HalfCircle \/ k = r - HalfCircle
           /\ positions["Ketu"].sign = get_sign(k)
           /\ positions["Ketu"].nakshatra =
                get_nakshatra_at(k, ketu_rounding(swe_calc_ut(jd, "Rahu"), jd))
           /\ r = Deg(100) => k = Deg(280) /\ positions["Ketu"].sign = "Capricorn"

C5_Witness ==
  /\ pc = "returned"
  /\ result[1].planets["Rahu"].longitude = Deg(100)
  /\ result[1].planets["Ketu"].longitude = Deg(280)
  /\ result[1].planets["Ketu"].sign = "Capricorn"
  /\ Len(calls) = 12

\* C6: every stored planet record of a queried body holds the tropical longitude
\* minus the ayanamsa, plus 360 when that is negative, a longitude of [0,360),
\* with a sign of the 12 and a nakshatra of the 27 with a pada of 1..4.
C6_SiderealRecordValid ==
  \A i \in 1..Len(planet_codes) :
    planet_codes[i] \in DOMAIN positions =>
      LET rec      == positions[planet_codes[i]]
          tropical == swe_calc_ut(jd, planet_codes[i])
      IN  /\ 0 <= tropical /\ tropical < Circle
          /\ rec.longitude = IF tropical - LAHIRI_AYANAMSA_2025 < 0
                               THEN tropical - LAHIRI_AYANAMSA_2025 + Circle
                               ELSE tropical - LAHIRI_AYANAMSA_2025
          /\ 0 <= rec.longitude /\ rec.longitude < Circle
          /\ rec.sign \in Range(signs)
          /\ rec.nakshatra.name \in Range(NAKSHATRAS)
          /\ rec.nakshatra.pada \in 1..4

\* A chart with everything a consumer reads: the nine planets with longitude,
\* sign, nakshatra and a house of 1..12, twelve cusps with the angles, D9 and
\* D10 over the same planets, the dasha snapshot and the three signs.
CompleteChart(chart) ==
  /\ DOMAIN chart.planets = Range(PLANETS)
  /\ Cardinality(DOMAIN chart.planets) = 9
  /\ \A p \in DOMAIN chart.planets :
       /\ 0 <= chart.planets[p].longitude /\ chart.planets[p].longitude < Circle
       /\ chart.planets[p].sign \in Range(signs)
       /\ chart.planets[p].nakshatra.name \in Range(NAKSHATRAS)
       /\ chart.planets[p].house \in 1..12
  /\ Len(chart.houses.cusps) = 12
  /\ DOMAIN chart.houses = {"cusps", "asc", "mc"}
  /\ DOMAIN chart.divisional_charts = {"D9", "D10"}
  /\ DOMAIN chart.divisional_charts.D9 = Range(PLANETS)
  /\ DOMAIN chart.divisional_charts.D10 = Range(PLANETS)
  /\ chart.dasha.current_dasha \in Range(dasha_lords)
  /\ Len(chart.dasha.sequence) = 9
  /\ chart.ascendant_sign \in Range(signs)
  /\ chart.sun_sign \in Range(signs)
  /\ chart.moon_sign \in Range(signs)

\* C7: generate_birth_chart returns a complete chart or raises and returns
\* nothing, never a partial chart.
C7_NoPartialChart ==
  /\ pc = "returned" => Len(result) = 1 /\ error = NoError /\ CompleteChart(result[1])
  /\ pc = "raised" => result = << >> /\ error # NoError
  /\ pc \notin {"returned", "raised"} => result = << >>

\* C8: the exception that leaves generate_birth_chart has the kind of the
\* exception the failing stage raised.
C8_ErrorKindReachesCaller ==
  pc = "raised" => error.type = error.context

\* The dasha durations as the claim lists them.
DashaTable ==
  [ Ketu |-> 7, Venus |-> 20, Sun |-> 6, Moon |-> 10, Mars |-> 7,
    Rahu |-> 18, Jupiter |-> 16, Saturn |-> 19, Mercury |-> 17 ]

\* The fixed order of the dasha lords as the claim lists it.
DashaOrder ==
  << "Ketu", "Venus", "Sun", "Moon", "Mars", "Rahu", "Jupiter", "Saturn", "Mercury" >>

\* C9: the durations of the table sum to 120 years, and for every Moon longitude
\* elapsed_years + remaining_years is the duration of the lord reported as
\* current_dasha (years counted in units of 1 / NakshatraSpan).
C9_ElapsedPlusRemaining ==
  /\ SumSeq(dasha_years) = 120
  /\ \A i \in 1..9 : dasha_years[i] = DashaTable[dasha_lords[i]]
  /\ fn_op = "calculate_dasha_periods" =>
       /\ fn_ret.error = NoError
       /\ fn_ret.value.current_dasha \in DOMAIN DashaTable
       /\ fn_ret.value.elapsed_years + fn_ret.value.remaining_years
            = DashaTable[fn_ret.value.current_dasha] * NakshatraSpan

C9_Witness ==
  /\ fn_op = "calculate_dasha_periods"
  /\ fn_lon = 9 * NakshatraSpan - 1
  /\ fn_ret.value.current_dasha = "Mercury"
  /\ fn_ret.value.elapsed_years = 17 * (NakshatraSpan - 1)
  /\ fn_ret.value.remaining_years = 17

\* C10: current_dasha is the lord at position (nakshatra index mod 9) of the
\* fixed order, and the sequence has 9 pairs, starts with current_dasha, follows
\* the fixed order cyclically, names every lord once with its table duration and
\* sums to 120.
C10_DashaSequence ==
  fn_op = "calculate_dasha_periods" =>
    LET d   == fn_ret.value
        seq == fn_ret.value.sequence
    IN  /\ \E k \in 0..27 :
             /\ k * NakshatraSpan <= fn_lon /\ fn_lon < (k + 1) * NakshatraSpan
             /\ d.current_dasha = DashaOrder[(k % 9) + 1]
        /\ Len(seq) = 9
        /\ seq[1][1] = d.current_dasha
        /\ \A i \in 1..8 : \E j \in 1..9 :
             seq[i][1] = DashaOrder[j] /\ seq[i + 1][1] = DashaOrder[(j % 9) + 1]
        /\ {seq[i][1] : i \in 1..9} = Range(DashaOrder)
        /\ \A i \in 1..9 : seq[i][2] = DashaTable[seq[i][1]]
        /\ SumSeq([i \in 1..9 |-> seq[i][2]]) = 120

C10_Witness ==
  /\ fn_op = "calculate_dasha_periods"
  /\ fn_ret.value.current_dasha = "Rahu"
  /\ fn_ret.value.sequence[1] = << "Rahu", 18 >>
  /\ fn_ret.value.sequence[2] = << "Jupiter", 16 >>
  /\ fn_ret.value.sequence[9] = << "Mars", 7 >>

\* C11: for every Moon longitude of [0,360) the traversed fraction of the
\* nakshatra is in [0,1), so 0 <= elapsed_years < duration of the current lord
\* and 0 < remaining_years <= that duration (years in units of 1 / NakshatraSpan);
\* at Moon longitude 0 the nakshatra index is 0, the current dasha is Ketu,
\* elapsed is 0 and remaining is 7.
C11_DashaBalanceInRange ==
  fn_op = "calculate_dasha_periods" =>
    LET d        == fn_ret.value
        duration == DashaTable[d.current_dasha] * NakshatraSpan
    IN  /\ 0 <= fn_lon /\ fn_lon < Circle
        /\ 0 <= d.elapsed_years /\ d.elapsed_years < duration
        /\ 0 < d.remaining_years /\ d.remaining_years <= duration
        /\ d.elapsed_years % DashaTable[d.current_dasha] = 0
        /\ d.elapsed_years \div DashaTable[d.current_dasha] \in 0..(NakshatraSpan - 1)
        /\ fn_lon = 0 =>
             /\ nakshatra_index(fn_lon) = 0
             /\ d.current_dasha = "Ketu"
             /\ d.elapsed_years = 0
             /\ d.remaining_years = 7 * NakshatraSpan

C11_Witness ==
  /\ fn_op = "calculate_dasha_periods"
  /\ fn_lon = 0
  /\ fn_ret.value.current_dasha = "Ketu"
  /\ fn_ret.value.elapsed_years = 0
  /\ fn_ret.value.remaining_years = 7 * NakshatraSpan

\* C12: for every planet of the positions map and N in {9, 10},
\* calculate_divisional_charts stores (longitude * N) mod 360, a value of
\* [0,360), with the sign get_sign gives to that derived longitude; D9 and D10
\* cover exactly the planets of the positions map; neither the houses nor the
\* ephemeris are consulted.
C12_DivisionalCharts ==
  \A c \in 1..Len(fn_ret) :
    LET charts == fn_ret[c].value
    IN  /\ fn_ret[c].error = NoError
        /\ DOMAIN charts = {"D9", "D10"}
        /\ DOMAIN charts.D9 = DOMAIN positions
        /\ DOMAIN charts.D10 = DOMAIN positions
        /\ \A p \in DOMAIN positions :
             LET d9  == charts.D9[p]
                 d10 == charts.D10[p]
             IN  /\ d9.longitude = 9 * (positions[p].longitude % Deg(40))
                 /\ d10.longitude = 10 * (positions[p].longitude % Deg(36))
                 /\ 0 <= d9.longitude /\ d9.longitude < Circle
                 /\ 0 <= d10.longitude /\ d10.longitude < Circle
                 /\ \E s \in 0..11 :
                      /\ s * Deg(30) <= d9.longitude /\ d9.longitude < (s + 1) * Deg(30)
                      /\ d9.sign = signs[s + 1]
                 /\ \E s \in 0..11 :
                      /\ s * Deg(30) <= d10.longitude /\ d10.longitude < (s + 1) * Deg(30)
                      /\ d10.sign = signs[s + 1]
        /\ houses = << >>
        /\ calls = << >>

C12_Witness ==
  /\ fn_op = "calculate_divisional_charts"
  /\ positions["Sun"].longitude = Deg(100) + 1
  /\ positions["Sun"].sign = "Cancer"
  /\ fn_ret[1].value.D9["Sun"] = [longitude |-> Deg(180) + 9, sign |-> "Libra"]
  /\ fn_ret[1].value.D10["Sun"] = [longitude |-> Deg(280) + 10, sign |-> "Capricorn"]
  /\ DOMAIN fn_ret[1].value.D9 = Range(PLANETS)

\* C13: calculate_divisional_charts keeps no hidden state: two calls on the same
\* positions map return equal D9 and D10 charts, and a call leaves the positions
\* map (longitude, sign, nakshatra, house of every planet) as it was.
C13_DivisionalNoHiddenState ==
  /\ \A c, d \in 1..Len(fn_ret) : fn_ret[c] = fn_ret[d]
  /\ fn_op = "calculate_divisional_charts" =>
       /\ DOMAIN positions = Range(PLANETS)
       /\ \A p \in Range(PLANETS) :
            /\ positions[p].longitude = stored_longitude(birth, p)
            /\ positions[p].sign = get_sign(stored_longitude(birth, p))
            /\ positions[p].nakshatra =
                 get_nakshatra_at(stored_longitude(birth, p), stored_rounding(birth, p))
            /\ positions[p].house = assign_house(fn_cusps, stored_longitude(birth, p))

C13_Witness ==
  /\ Len(fn_ret) = 2
  /\ fn_ret[1] = fn_ret[2]
  /\ fn_ret[2].value.D9["Moon"].longitude = 9 * (positions["Moon"].longitude % Deg(40))
  /\ positions["Moon"].house \in 1..12

\* The stages of generate_birth_chart in the order the claim lists them, and
\* the number of the stage a step belongs to (10: returned).
StageOrder ==
  << "coordinates", "timezone", "julian_day", "houses", "planets", "assign",
     "divisional", "dasha", "assemble", "returned" >>

StageNumber(step) ==
  IF step = "ketu" THEN 5
  ELSE CHOOSE k \in 1..Len(StageOrder) : StageOrder[k] = step

\* The stage the invocation is at, or failed at.
StageAt == IF pc = "raised" THEN StageNumber(failed_stage) ELSE StageNumber(pc)

\* Stage k has succeeded: its output is there (stage 6, the house loop, has no
\* output of its own: it writes the houses into positions).
StageDone(k) ==
  CASE k = 1 -> coords # << >>
    [] k = 2 -> timezone_str # ""
    [] k = 3 -> jd # 0
    [] k = 4 -> houses # << >>
    [] k = 5 -> DOMAIN positions = Range(PLANETS)
    [] k = 7 -> divisional_charts # << >>
    [] k = 8 -> dasha # << >>
    [] k = 9 -> result # << >>

\* The collaborator calls of a complete run, in order.
CallOrder ==
  << << "geocode", birth_place >>, << "timezone_at", "" >>, << "julday", "" >>,
     << "houses", "" >> >>
    \o [i \in 1..Len(planet_codes) |-> << "calc_ut", planet_codes[i] >>]

\* The number of collaborator calls made once stages 1..k have succeeded.
CallsThrough(k) == IF k >= 5 THEN 12 ELSE k

\* C14: the stages of generate_birth_chart happen in the order geocoding,
\* timezone lookup, Julian Day, houses, planetary positions, house assignment,
\* divisional charts, dasha, assembly: a stage has succeeded exactly when the
\* run is at (or failed at) a later stage, so no stage starts before every
\* earlier one has succeeded; the collaborator calls are made in that order;
\* and after a stage fails nothing further is executed or called.
C14_StagesInOrder ==
  /\ pc \in Range(StageOrder) \cup {"ketu", "raised"}
  /\ \A k \in (1..9) \ {6} : StageDone(k) <=> k < StageAt
  /\ \A p \in DOMAIN positions : positions[p].house # NoHouse => StageAt > 6
  /\ DOMAIN positions # {} => StageAt >= 5
  /\ Len(calls) <= Len(CallOrder)
  /\ calls = SubSeq(CallOrder, 1, Len(calls))
  /\ Len(calls) >= CallsThrough(StageAt - 1)
  /\ Len(calls) <= CallsThrough(StageAt)
  /\ pc = "raised" =>
       /\ ~ENABLED Next
       /\ failed_stage \in {"coordinates", "timezone", "julian_day", "houses", "planets"}
       /\ result = << >>

C14_Witness ==
  /\ pc = "raised"
  /\ failed_stage = "houses"
  /\ calls = SubSeq(CallOrder, 1, 4)
  /\ jd # 0
  /\ positions = NoPositions

\* The collaborator a call goes to.
Service(call) == call[1]

\* C15: no retries: within one invocation the geocoder, the timezone resolver,
\* the Julian Day conversion and the house query are each called at most once,
\* the planet-longitude query at most once for each of the 8 bodies (the 7
\* classical planets and the lunar north node), and the first collaborator
\* failure ends the invocation: the failing call is the last one and no step
\* follows.
C15_NoRetries ==
  /\ \A s \in {"geocode", "timezone_at", "julday", "houses"} :
       Cardinality({i \in 1..Len(calls) : Service(calls[i]) = s}) <= 1
  /\ \A i \in 1..Len(calls) :
       Service(calls[i]) = "calc_ut" =>
         /\ calls[i][2] \in Range(planet_codes)
         /\ Cardinality({j \in 1..Len(calls) : calls[j] = calls[i]}) = 1
  /\ Cardinality(Range(planet_codes)) = 8
  /\ Range(planet_codes) =
       {"Sun", "Moon", "Mars", "Mercury", "Jupiter", "Venus", "Saturn", "Rahu"}
  /\ \A i \in 1..Len(calls) :
       Service(calls[i]) \in {"geocode", "timezone_at", "julday", "houses", "calc_ut"}
  /\ (pc = "raised" /\ error.context \in {"GeocoderServiceError", "ValueError",
                                           "swisseph.Error"}) =>
       /\ ~ENABLED Next
       /\ calls # << >>
       /\ Service(calls[Len(calls)]) =
            CASE failed_stage = "coordinates" -> "geocode"
              [] failed_stage = "timezone"    -> "timezone_at"
              [] failed_stage = "houses"      -> "houses"
              [] failed_stage = "planets"     -> "calc_ut"

C15_Witness ==
  /\ pc = "raised"
  /\ failed_stage = "planets"
  /\ error.context = "swisseph.Error"
  /\ Len(calls) = 7
  /\ calls[7] = << "calc_ut", "Mars" >>
  /\ DOMAIN positions = {"Sun", "Moon"}

\* C16: when the geocoder finds no match for the place name, get_coordinates
\* fails with a place-not-found error (a ValueError "Could not find
\* coordinates") and generate_birth_chart fails without calling the timezone
\* resolver or the ephemeris and without returning a chart.
C16_PlaceNotFound ==
  location = "None" =>
    /\ pc = "raised"
    /\ failed_stage = "coordinates"
    /\ error.context = "ValueError"
    /\ error.message = "Could not find coordinates"
    /\ calls = << << "geocode", birth_place >> >>
    /\ coords = << >>
    /\ timezone_str = ""
    /\ jd = 0
    /\ result = << >>
    /\ returned_charts = << >>
    /\ ~ENABLED Next

C16_Witness ==
  /\ location = "None"
  /\ pc = "raised"
  /\ birth_place = "Mumbai"
  /\ error.message = "Could not find coordinates"
  /\ calls = << << "geocode", "Mumbai" >> >>

\* C17: when the time-zone identifier handed to calculate_julian_day is not
\* recognized, the case of no identifier (None) included, calculate_julian_day
\* fails with an invalid-time-zone error (pytz's UnknownTimeZoneError), no
\* Julian Day is produced and generate_birth_chart returns no chart.
C17_InvalidTimeZone ==
  (timezone_str \in TimezoneAnswers \ PytzZones /\ pc # "julian_day") =>
    /\ pc = "raised"
    /\ failed_stage = "julian_day"
    /\ error.context = "UnknownTimeZoneError"
    /\ error.message = timezone_str
    /\ jd = 0
    /\ \A i \in 1..Len(calls) : Service(calls[i]) # "julday"
    /\ houses = << >>
    /\ result = << >>
    /\ returned_charts = << >>
    /\ ~ENABLED Next

C17_Witness ==
  /\ timezone_str = "None"
  /\ pc = "raised"
  /\ failed_stage = "julian_day"
  /\ error.context = "UnknownTimeZoneError"
  /\ jd = 0

\* C18: calculate_houses returns exactly the first 12 cusp values of the
\* provider's answer, in the provider's order, with the provider's Ascendant and
\* Midheaven, unmodified; when the provider reports undefined house geometry the
\* failure reaches the caller and no cusps or angles are returned in its place.
C18_HousesAsProvided ==
  fn_op = "calculate_houses" =>
    IF fn_ret.error = NoError
      THEN /\ Len(fn_ret.value) = 1
           /\ DOMAIN fn_ret.value[1] = {"cusps", "asc", "mc"}
           /\ Len(fn_ret.value[1].cusps) = 12
           /\ \A i \in 1..12 : fn_ret.value[1].cusps[i] = swe_houses(fn_cusps).houses[i]
           /\ fn_ret.value[1].cusps = fn_cusps
           /\ fn_ret.value[1].asc = swe_houses(fn_cusps).ascmc[1]
           /\ fn_ret.value[1].mc = swe_houses(fn_cusps).ascmc[2]
           /\ fn_ret.value[1].asc = fn_cusps[1]
           /\ fn_ret.value[1].mc = fn_cusps[10]
      ELSE /\ fn_ret.error.type = "swisseph.Error"
           /\ fn_ret.value = << >>

C18_Witness ==
  /\ fn_op = "calculate_houses"
  /\ fn_ret.error = NoError
  /\ fn_cusps = CuspSample(1)
  /\ fn_ret.value[1].cusps[1] = Deg(350)
  /\ fn_ret.value[1].cusps[2] = Deg(20)
  /\ fn_ret.value[1].asc = Deg(350)
  /\ fn_ret.value[1].mc = Deg(260)

\* C20: in every chart generate_birth_chart returns, sun_sign is
\* planets['Sun'].sign, moon_sign is planets['Moon'].sign, ascendant_sign is
\* get_sign of houses['asc'], and dasha.current_dasha is the lord determined by
\* the longitude stored in planets['Moon'] (the lord at position nakshatra index
\* mod 9 of the fixed order).
C20_ConvenienceFieldsAgree ==
  \A i \in 1..Len(result) :
    LET chart == result[i]
        moon  == chart.planets["Moon"].longitude
    IN  /\ chart.sun_sign = chart.planets["Sun"].sign
        /\ chart.moon_sign = chart.planets["Moon"].sign
        /\ \E s \in 0..11 :
             /\ s * Deg(30) <= chart.houses.asc /\ chart.houses.asc < (s + 1) * Deg(30)
             /\ chart.ascendant_sign = signs[s + 1]
        /\ \E k \in 0..27 :
             /\ k * NakshatraSpan <= moon /\ moon < (k + 1) * NakshatraSpan
             /\ chart.dasha.current_dasha = DashaOrder[(k % 9) + 1]

C20_Witness ==
  /\ pc = "returned"
  /\ result[1].sun_sign = "Cancer"
  /\ result[1].planets["Sun"].sign = "Cancer"
  /\ result[1].moon_sign # result[1].sun_sign
  /\ result[1].ascendant_sign = "Pisces"
  /\ result[1].houses.asc = Deg(350)
  /\ result[1].dasha.current_dasha \in Range(DashaOrder)

\* The inputs of the invocation that returned a chart and the answers its
\* collaborators gave (the ephemeris answers are a function of the instant).
InputsAndAnswers(chart) ==
  << chart.name, chart.birth, chart.birth_place, chart.coordinates, chart.timezone,
     chart.houses >>

\* C19: chart computation is stateless and deterministic: two invocations on
\* the same AstroCalculator with the same name, date, time and place and the
\* same collaborator answers return equal charts, whatever invocations
\* (returned or failed) ran before or between them, every invocation starts
\* with new locals, and a chart that was returned is not changed by later
\* invocations.
C19_StatelessDeterministic ==
  /\ [](\A i, j \in 1..Len(returned_charts) :
          InputsAndAnswers(returned_charts[i]) = InputsAndAnswers(returned_charts[j])
            => returned_charts[i] = returned_charts[j])
  /\ [][ /\ Len(returned_charts') >= Len(returned_charts)
         /\ \A i \in 1..Len(returned_charts) : returned_charts'[i] = returned_charts[i]
         /\ (pc \in {"returned", "raised"} /\ pc' = "coordinates") =>
              /\ positions' = NoPositions
              /\ houses' = << >>
              /\ calls' = << >>
              /\ result' = << >> ]_vars

C19_Witness ==
  /\ pc = "returned"
  /\ Len(returned_charts) = 2
  /\ returned_charts[1] = returned_charts[2]
  /\ returned_charts[2] = result[1]
  /\ result[1].planets["Sun"].longitude = Deg(100) + 1
  /\ Len(calls) = 12

\* What the chart itself says for the values a context shows.
ContextOfChart(chart) ==
  [ ascendant     |-> chart.ascendant_sign,
    current_dasha |-> chart.dasha.current_dasha,
    planets       |-> [p \in key_planets |->
                         [ sign  |-> chart.planets[p].sign,
                           house |-> chart.planets[p].house ]] ]

\* C21: every chart field the chart-context formatters look up is a field the
\* assembler writes under the same name: for a returned chart the formatted
\* context shows the chart's ascendant sign, its current dasha and the sign and
\* house of each key planet, and never the fallback "Unknown" for the ascendant.
C21_ContextShowsChart ==
  result # << >> =>
    /\ format_chart_context(result[1]) = ContextOfChart(result[1])
    /\ chart_context(result[1]) = ContextOfChart(result[1])
    /\ format_chart_context(result[1]).ascendant # "Unknown"
    /\ chart_context(result[1]).ascendant # "Unknown"

\* C22: every string the four reply methods return has at most 3000
\* characters, for every outcome of the model call: a model text longer than
\* 3000 characters is cut to 2997 characters plus "...", and the reply returned
\* when the model call raises is within the limit too.
C22_RepliesWithinLimit ==
  reply_ret # << >> =>
    /\ str_len(reply_ret[1]) <= MaxReply
    /\ (~model_outcome.raises /\ model_outcome.size > MaxReply) =>
         reply_ret[1] = << piece("response.text", KeptChars), piece("...", 3) >>

\* C23: every process_user_message call makes exactly two model calls, the
\* context-analysis call and then the response-generation call, and the second
\* receives the analysis the first produced; when the analysis call fails or
\* returns unparsable JSON the default structure is used and the response call
\* is still made once.
C23_TwoModelCalls ==
  pm_ret # << >> =>
    LET asked == pm_ret[1]
        parsed == /\ ~asked.analysis_outcome.raises
                  /\ asked.analysis_outcome.body = "object"
    IN  /\ Len(model_calls) = 2
        /\ model_calls[1].prompt = "analysis"
        /\ model_calls[2].prompt = "response"
        /\ model_calls[1].user_message = asked.user_message
        /\ model_calls[2].context_analysis = asked.context_analysis
        /\ parsed => asked.context_analysis = model_analysis
        /\ ~parsed => asked.context_analysis = default_analysis(asked.user_message)

C23_Witness ==
  /\ pm_ret # << >>
  /\ pm_ret[1].analysis_outcome.body = "prose"
  /\ pm_ret[1].response_outcome.raises
  /\ pm_ret[1].response_text = contextual_fallback
  /\ Len(model_calls) = 2
  /\ model_calls[2].context_analysis.question_category = "general"
  /\ num_logged(chat_files) = 3

\* The messages logged so far, oldest first.
RECURSIVE Logged(_)
Logged(files) == IF files = << >> THEN << >> ELSE Head(files) \o Logged(Tail(files))

\* The n most recently logged messages, newest first.
MostRecent(files, n) ==
  LET all == Logged(files)
      k == IF n < Len(all) THEN n ELSE Len(all)
  IN  [i \in 1..k |-> all[Len(all) - i + 1]]

\* C24: after any sequence of log_user_message, log_bot_response and
\* log_system_event calls for one user, get_recent_messages(username, user_id,
\* limit) returns exactly the min(limit, number logged) most recently logged
\* messages, newest first, however they are spread over chat files.
C24_RecentMessages ==
  recent # << >> =>
    LET wanted == MostRecent(chat_files, recent[1].limit)
        got == recent[1].messages
    IN  /\ Len(got) = Len(wanted)
        /\ \A i \in 1..Len(got) :
             /\ got[i].timestamp = wanted[i].timestamp
             /\ got[i].message_type = wanted[i].message_type
             /\ got[i].content = wanted[i].content

\* C25: the Previous Conversation block of the analysis prompt consists of the
\* 5 most recently logged messages among those get_conversation_history
\* returned, oldest of the five first.
C25_PreviousConversation ==
  history_block # << >> =>
    LET history == get_conversation_history(chat_files, 10)
        newest == first_n(history, 5)
        block == history_block[1]
    IN  /\ Len(block) = Len(newest)
        /\ \A i \in 1..Len(block) :
             block[i].timestamp = newest[Len(newest) - i + 1].timestamp

\* The session's birth details.
Details == dict_get(user_data, "birth_details", EmptyDict)

\* All four birth details are present and non-empty.
DetailsComplete ==
  \A field \in required_fields : field \in DOMAIN Details /\ truthy(Details[field])

\* C26: the session's chart_data and the user's row (chart_data, coordinates,
\* timezone, onboarding_complete = True) are written only after
\* generate_birth_chart returned a chart; when the date/time parsing or the
\* chart generation fails, the session has no chart_data, no row is created
\* or changed, and the chart-calculation error reply is the handler's first:
\* it is awaited, or Telegram took it and it is logged, or the call raised.
C26_NothingStoredUnfinished ==
  /\ ("chart_data" \in DOMAIN user_data /\ "chart_data" \notin DOMAIN last.data_before)
       => last.chart \in {"stored", "database failed"}
  /\ db_row # last.row_before =>
       /\ last.chart = "stored"
       /\ db_row[1].chart_data = user_data.chart_data
       /\ db_row[1].latitude = user_data.chart_data.coordinates.latitude
       /\ db_row[1].longitude = user_data.chart_data.coordinates.longitude
       /\ db_row[1].timezone = user_data.chart_data.timezone
       /\ db_row[1].onboarding_complete
  /\ last.chart \in {"parse failed", "generation failed"} =>
       /\ "chart_data" \notin DOMAIN user_data
       /\ db_row = last.row_before
       /\ \/ task.awaits = "chart calculation error" /\ sent = << >>
          \/ /\ sent # << >>
             /\ sent[1] = "chart calculation error"
             /\ entry("bot", "chart_calculation_error") \in Range(bot_log)
          \/ /\ last.raised # << >>
             /\ last.raised[1] = "chart calculation error"
             /\ "chart calculation error" \notin Range(sent)

C26_Witness ==
  /\ last.handler = "handle_consultation"
  /\ last.chart = "generation failed"
  /\ DetailsComplete
  /\ Details.birth_place = "Pune"
  /\ "chart_data" \notin DOMAIN user_data
  /\ db_row # << >>
  /\ db_row[1].birth_place = "Delhi"
  /\ task = NoTask
  /\ sent = << "chart calculation error", "technical problem" >>

C28_ConsultationHasDetails ==
  conv_state = "CONSULTATION" => DetailsComplete

\* C29: when a text message arrives in CONSULTATION with all four birth
\* details present, handle_consultation sends the response the context manager
\* generated, logs it as a "consultation" bot response, records the question
\* category in conversation_memory, and stays in CONSULTATION; the
\* technical-problem reply is not sent.  (The handler has returned and every
\* Telegram call it awaited returned.)
C29_GeneratedResponseSent ==
  (/\ task = NoTask
   /\ last.handler = "handle_consultation"
   /\ last.chart # "not asked"
   /\ last.raised = << >>) =>
    /\ sent # << >>
    /\ sent[Len(sent)] = "generated response"
    /\ "technical problem" \notin Range(sent)
    /\ bot_log[Len(bot_log)] = entry("bot", "consultation")
    /\ user_data.conversation_memory.last_category # "None"
    /\ conv_state = "CONSULTATION"

\* C30: after /start (start has returned) the session has empty
\* birth_details, no chart_data, onboarding_state "start", an empty
\* conversation memory and no language preference, whatever it held before,
\* and the conversation is in ONBOARDING; from the moment start has cleared the
\* session no earlier detail or chart is left; /reset clears only the
\* conversation memory and leaves every other key, the birth details and the
\* chart among them, as it was, at its await and after it.
C30_StartFreshResetMemoryOnly ==
  /\ last.handler = "start" =>
       /\ user_data.birth_details = EmptyDict
       /\ "chart_data" \notin DOMAIN user_data
       /\ user_data.onboarding_state = "start"
       /\ user_data.conversation_memory = empty_memory
       /\ dict_get(user_data, "language_preference", "None") = "None"
  /\ (last.handler = "start" /\ last.ended = "returned") =>
       /\ user_data.birth_details = EmptyDict
       /\ "chart_data" \notin DOMAIN user_data
       /\ user_data.onboarding_state = "start"
       /\ user_data.conversation_memory = empty_memory
       /\ user_data.language_preference = "None"
       /\ DOMAIN user_data = { "onboarding_state", "birth_details", "conversation_memory",
                               "awaiting_language_preference", "language_preference" }
       /\ conv_state = "ONBOARDING"
  /\ last.handler = "reset_memory" =>
       /\ DOMAIN user_data = DOMAIN last.data_before
       /\ \A k \in DOMAIN user_data \ {"conversation_memory"} :
            user_data[k] = last.data_before[k]
       /\ "conversation_memory" \in DOMAIN user_data =>
            user_data.conversation_memory = empty_memory
       /\ conv_state = "CONSULTATION"

C30_Witness ==
  /\ task = NoTask
  /\ last.handler = "start"
  /\ last.ended = "returned"
  /\ "chart_data" \in DOMAIN last.data_before
  /\ last.data_before.birth_details.birth_place = "Pune"
  /\ last.data_before.consultation_state = "ready"
  /\ db_row # << >>
  /\ conv_state = "ONBOARDING"
  /\ user_data.birth_details = EmptyDict

====
